---------------------------- MODULE Spec2Model ----------------------------
(***************************************************************************)
(* Root-finding engine of Numerical-Analysis-App: Solver.solve             *)
(* (src/core/solver.py) dispatching to the five iterative methods          *)
(* (src/core/methods/*.py) and offering the result to HistoryManager       *)
(* (src/core/history.py).                                                  *)
(*                                                                         *)
(* Numbers.  A Python float is modelled as a fixed-point number: the       *)
(* integer v stands for v / SCALE.  Results of a division are rounded to   *)
(* the nearest grid point (a float division rounds to the nearest double). *)
(* float('nan') is the value NaN, which every arithmetic operator          *)
(* propagates and every ordering comparison answers False on, as IEEE-754  *)
(* does.  The tolerances 1e-10 and 1e-6 of the source are below the grid   *)
(* step, so |v| < 1e-10 is v = 0 on the grid.                              *)
(*                                                                         *)
(* Specifications.  Spec is one Solver.solve call with any arguments;      *)
(* ExampleSpec is the Bisection example of the tests on a finer grid;      *)
(* RepeatSpec is a call followed by the same call on the same Solver;      *)
(* ConcurrentSpec is two calls whose save_solution steps interleave;       *)
(* CriteriaSpec is BisectionMethod.solve called with a stop_criteria;      *)
(* CyclingSpec is Newton-Raphson and Secant called on functions whose      *)
(* estimates cycle; DivergingSpec is Fixed Point on estimates of the       *)
(* magnitude of 1e15; HistorySpec is HistoryManager.save_solution and      *)
(* load_history called in any order.                                       *)
(***************************************************************************)
EXTENDS Integers, Sequences, FiniteSets, TLC

----------------------------------------------------------------------------
(* Bounds of the model *)

\* largest iteration cap (max_iter) a call is given; caps range over 0..MaxIterBound
MaxIterBound == 3

\* grid points per unit: the integer v stands for the float v / SCALE
SCALE == 1000

----------------------------------------------------------------------------
(* Floats *)

\* float('nan')
NaN == 999999999

\* a parameter value that is not an int or a float (e.g. a str)
NonNumeric == 888888888

\* Python None as a root
None == 777777777

IsNaN(v) == v = NaN

Abs(v) == IF IsNaN(v) THEN NaN ELSE IF v < 0 THEN -v ELSE v

Sgn(v) == IF v > 0 THEN 1 ELSE IF v < 0 THEN -1 ELSE 0

\* a / b rounded to the nearest integer, halves away from zero; b # 0
RDiv(a, b) == Sgn(a) * Sgn(b) * ((2 * Abs(a) + Abs(b)) \div (2 * Abs(b)))

Add(a, b) == IF IsNaN(a) \/ IsNaN(b) THEN NaN ELSE a + b

Sub(a, b) == IF IsNaN(a) \/ IsNaN(b) THEN NaN ELSE a - b

\* a < b, a <= b on floats: False when either side is NaN
Lt(a, b) == ~IsNaN(a) /\ ~IsNaN(b) /\ a < b

Le(a, b) == ~IsNaN(a) /\ ~IsNaN(b) /\ a <= b

\* the sign of the float product a * b: 1, -1, 0, or NaN
ProdSign(a, b) == IF IsNaN(a) \/ IsNaN(b) THEN NaN ELSE Sgn(a) * Sgn(b)

\* abs(v) < 1 in place of abs(v) < 1e-10
NearZeroWithinOne(v) == ~IsNaN(v) /\ Abs(v) < SCALE

\* abs(v) < 1e-10
NearZero(v) == ~IsNaN(v) /\ v = 0

\* 10 ** n
RECURSIVE Pow10(_)
Pow10(n) == IF n <= 0 THEN 1 ELSE 10 * Pow10(n - 1)

\* Python round(q) of the rational q = a / b (b > 0): nearest integer, halves to even
RoundHalfEven(a, b) ==
    LET fl == a \div b
        r2 == 2 * (a - fl * b)
    IN  IF r2 < b THEN fl
        ELSE IF r2 > b THEN fl + 1
        ELSE IF fl % 2 = 0 THEN fl ELSE fl + 1

----------------------------------------------------------------------------
(* Function texts and their evaluators *)

\* the function texts a caller passes: three that parse, one that parses only
\* after validate_function's rewriting of "2x" to "2*x", one that never parses
Funcs == {"x**2 - 4", "x", "1/x", "2x - 4", "x +"}

\* two more texts that parse, passed to the methods directly: Newton-Raphson
\* cycles 0, 1, 0, 1 on the cubic, Secant returns to its first seed on the
\* quadratic
CyclingFuncs == {"x**3 - 2*x + 2", "x**2 - 2*x + 2"}

\* sp.sympify(func_str) succeeds on the text as given
Sympifies(func) == func \in {"x**2 - 4", "x", "1/x"} \cup CyclingFuncs

\* the value of the expression at the float x, where defined
ExprValue(func, x) ==
    CASE func = "x**2 - 4" -> RDiv(x * x, SCALE) - 4 * SCALE
      [] func = "x"        -> x
      [] func = "1/x"      -> RDiv(SCALE * SCALE, x)
      [] func = "x**3 - 2*x + 2" -> RDiv(RDiv(x * x, SCALE) * x, SCALE) - 2 * x + 2 * SCALE
      [] func = "x**2 - 2*x + 2" -> RDiv(x * x, SCALE) - 2 * x + 2 * SCALE

\* evaluation raises ZeroDivisionError at x
DividesByZero(func, x) == func = "1/x" /\ x = 0

\* safe_eval of NumericalMethodBase._create_function: NaN instead of an exception
SafeEval(func, x) ==
    IF IsNaN(x) \/ DividesByZero(func, x) THEN NaN ELSE ExprValue(func, x)

\* Solver.validate_function: None (TRUE here) when the rewritten text parses
validate_function(func) == func \in {"x**2 - 4", "x", "1/x", "2x - 4"}

----------------------------------------------------------------------------
(* Display conversions of NumericalMethodBase *)

\* the placeholder "---" of a row's error field
Dash == 666666666

\* the grid points between two neighbours of the numbers with dp decimal places
DisplayStep(decimal_places) ==
    IF Pow10(decimal_places) >= SCALE THEN 1 ELSE SCALE \div Pow10(decimal_places)

\* _round_value: round(value * 10**dp) / 10**dp; NaN is returned as it is
RoundValue(value, decimal_places) ==
    IF IsNaN(value) THEN NaN
    ELSE RoundHalfEven(value, DisplayStep(decimal_places)) * DisplayStep(decimal_places)

Min(a, b) == IF a <= b THEN a ELSE b

\* _format_error: "---" unchanged, else the value rounded to min(3, dp) places
\* (the "%" suffix is the same on every value and is left out)
FormatError(error, decimal_places) ==
    IF error = Dash THEN Dash
    ELSE RoundValue(error, Min(3, decimal_places))

\* _check_convergence of the base class and the inlined comparisons of the
\* methods: the operator applied to (error, eps); "=" within 1e-10
CheckConvergence(error, eps, eps_operator) ==
    CASE eps_operator = "<=" -> Le(error, eps)
      [] eps_operator = ">=" -> Le(eps, error)
      [] eps_operator = "<"  -> Lt(error, eps)
      [] eps_operator = ">"  -> Lt(eps, error)
      [] eps_operator = "="  -> NearZero(Sub(error, eps))
      [] OTHER -> FALSE

\* abs_diff / abs(x) * 100
Percent(abs_diff, x) ==
    IF IsNaN(abs_diff) \/ IsNaN(x) THEN NaN
    ELSE LET n == abs_diff * SCALE
             d == Abs(x)
         IN  (n \div d) * 100 + RDiv((n % d) * 100, d)

----------------------------------------------------------------------------
(* Inputs of Solver.solve *)

\* the keys of Solver.methods used here, and a name that is not a key
MethodNames == {"Bisection", "False Position", "Fixed Point", "Newton-Raphson", "Secant"}

CallNames == MethodNames \cup {"Simpson"}

\* the numeric values a parameter takes
XVals == {-1 * SCALE, 0, 1 * SCALE, 3 * SCALE}

\* the upper bounds of a bracket
XuVals == {1 * SCALE, 3 * SCALE, NonNumeric}

\* params dictionaries: a bracket, a seed, two Secant seeds; with a key
\* missing (the empty dictionary) and with a value that is no number
BracketParams == {[xl |-> a, xu |-> b] : a \in XVals, b \in XuVals}

SeedParams == {[xi |-> a] : a \in {0, 1 * SCALE, 3 * SCALE, NonNumeric}}

SecantParams ==
    {[xi_minus_1 |-> a, xi |-> b] : a \in {0, 1 * SCALE, 3 * SCALE}, b \in {3 * SCALE, 4 * SCALE}}
    \cup {[xi_minus_1 |-> -3 * SCALE, xi |-> 3 * SCALE]}

EmptyParams == {<< >>}

ParamsFor(method_name) ==
    EmptyParams \cup
    (CASE method_name \in {"Bisection", "False Position"} -> BracketParams
       [] method_name \in {"Fixed Point", "Newton-Raphson"} -> SeedParams
       [] method_name = "Secant" -> SecantParams
       [] OTHER -> SeedParams)

\* self.MAX_EPS = 100.0, the greatest threshold the input form accepts
MAX_EPS == 100 * SCALE

\* thresholds: 0 (not positive), 0.5, 2.0 and 20.0 (above 1: read as a
\* percentage by Bisection and Secant), and 200.0 (above MAX_EPS)
EpsVals == {0, SCALE \div 2, 2 * SCALE, 20 * SCALE, 2 * MAX_EPS}

\* the five operators the methods compare with
RecognizedOperators == {"<=", ">=", "<", ">", "="}

\* the operators a caller passes: the five, and one that no method knows
EpsOperators == RecognizedOperators \cup {"!="}

MaxIterVals == 0 .. MaxIterBound

\* decimal places of the rows' displayed values
DecimalPlacesVals == {2}

Has(params, k) == k \in DOMAIN params

IsNumber(v) == v # NonNumeric

\* validate_parameters without the check of the bracket's order (line 124)
validate_parameters_unordered(method_name, params) ==
    CASE method_name \in {"Bisection", "False Position"} ->
            IF ~(Has(params, "xl") /\ Has(params, "xu"))
            THEN "Missing parameters: xl and xu required"
            ELSE IF ~IsNumber(params["xl"]) \/ ~IsNumber(params["xu"])
            THEN "xl and xu must be numbers"
            ELSE "ok"
      [] method_name \in {"Fixed Point", "Newton-Raphson"} ->
            IF ~Has(params, "xi") THEN "Missing parameter: xi required"
            ELSE IF ~IsNumber(params["xi"]) THEN "xi must be a number"
            ELSE "ok"
      [] method_name = "Secant" ->
            IF ~(Has(params, "xi_minus_1") /\ Has(params, "xi"))
            THEN "Missing parameters: xi_minus_1 and xi required"
            ELSE IF ~IsNumber(params["xi_minus_1"]) \/ ~IsNumber(params["xi"])
            THEN "xi_minus_1 and xi must be numbers"
            ELSE IF params["xi_minus_1"] = params["xi"]
            THEN "xi_minus_1 must be different from xi"
            ELSE "ok"
      [] OTHER -> "ok"

\* Solver.validate_parameters: "ok" for None, else the message returned
validate_parameters(method_name, params) ==
    CASE method_name \in {"Bisection", "False Position"} ->
            IF ~(Has(params, "xl") /\ Has(params, "xu"))
            THEN "Missing parameters: xl and xu required"
            ELSE IF ~IsNumber(params["xl"]) \/ ~IsNumber(params["xu"])
            THEN "xl and xu must be numbers"
            ELSE IF params["xl"] >= params["xu"]
            THEN "xl must be less than xu"
            ELSE "ok"
      [] method_name \in {"Fixed Point", "Newton-Raphson"} ->
            IF ~Has(params, "xi") THEN "Missing parameter: xi required"
            ELSE IF ~IsNumber(params["xi"]) THEN "xi must be a number"
            ELSE "ok"
      [] method_name = "Secant" ->
            IF ~(Has(params, "xi_minus_1") /\ Has(params, "xi"))
            THEN "Missing parameters: xi_minus_1 and xi required"
            ELSE IF ~IsNumber(params["xi_minus_1"]) \/ ~IsNumber(params["xi"])
            THEN "xi_minus_1 and xi must be numbers"
            ELSE IF params["xi_minus_1"] = params["xi"]
            THEN "xi_minus_1 must be different from xi"
            ELSE "ok"
      [] OTHER -> "ok"

----------------------------------------------------------------------------
(* State *)

VARIABLES
    pc,         \* where the call is: "idle", a method's position, "returned", "done"
    inp,        \* the arguments of the Solver.solve call in progress
    loc,        \* the local variables of the method that is running
    table,      \* the method's table: the rows in insertion order
    recorded,   \* the Iteration index of every iteration row, as inserted
    estimates,  \* the number of new estimates the method has computed
    mret,       \* what the method's solve returned, or that it raised
    out,        \* what Solver.solve returned
    nCalls,     \* the number of times a method's solve was invoked
    nSaves,     \* the number of times save_solution was called
    history,    \* the entries stored in history.json
    prev,       \* the arguments and the answer of the call before this one
    other       \* a second Solver.solve call that runs at the same time

vars == <<pc, inp, loc, table, recorded, estimates, mret, out, nCalls, nSaves, history,
          prev, other>>

NoArgs == [method_name |-> "none"]

NoLocals == [of |-> "none"]

NoReturn == [kind |-> "none"]

\* no earlier call
NoCall == [kind |-> "none"]

\* no second call
NoOther == [at |-> "none"]

\* a method's return statement
Return(root, trace, status) ==
    [kind |-> "value", root |-> root, trace |-> trace, status |-> status]

\* the (root, table) tuple Solver.solve returns
SolverReturn(root, trace) == [kind |-> "value", root |-> root, trace |-> trace]

\* an exception that leaves the method's solve
Raise(exc) == [kind |-> "raise", exc |-> exc]

Init ==
    /\ pc = "idle"
    /\ inp = NoArgs
    /\ loc = NoLocals
    /\ table = << >>
    /\ recorded = << >>
    /\ estimates = 0
    /\ mret = NoReturn
    /\ out = NoReturn
    /\ nCalls = 0
    /\ nSaves = 0
    /\ history = << >>
    /\ prev = NoCall
    /\ other = NoOther

\* the method returns (or raises): control is back in Solver.solve
MethodEnds(result, finalTable) ==
    /\ pc' = "returned"
    /\ mret' = result
    /\ table' = finalTable

----------------------------------------------------------------------------
(* Solver.solve: validation and dispatch (solver.py 170-249) *)

\* the position at which each method's solve starts
EntryOf(method_name) ==
    CASE method_name = "Bisection" -> "bisection"
      [] method_name = "False Position" -> "false_position"
      [] method_name = "Fixed Point" -> "fixed_point"
      [] method_name = "Newton-Raphson" -> "newton"
      [] method_name = "Secant" -> "secant"

\* the single-row answer of a failed validation, "ok" when validation passes
ValidationError(method_name, func, params) ==
    IF method_name \notin MethodNames THEN "Unknown method"
    ELSE IF ~validate_function(func) THEN "Invalid mathematical expression"
    ELSE validate_parameters(method_name, params)

SolveCall(method_name, func, params, eps, eps_operator, max_iter, stop_by_eps, decimal_places) ==
    /\ pc = "idle"
    /\ inp' = [method_name |-> method_name, func |-> func, params |-> params,
               eps |-> eps, eps_operator |-> eps_operator, max_iter |-> max_iter,
               stop_by_eps |-> stop_by_eps, decimal_places |-> decimal_places]
    /\ LET err == ValidationError(method_name, func, params) IN
       IF err # "ok"
       THEN /\ out' = SolverReturn(None, << [Error |-> err] >>)
            /\ pc' = "done"
            /\ UNCHANGED nCalls
       ELSE /\ pc' = EntryOf(method_name)
            /\ nCalls' = nCalls + 1
            /\ UNCHANGED out
    /\ UNCHANGED <<loc, table, recorded, estimates, mret, nSaves, history, prev, other>>

----------------------------------------------------------------------------
(* BisectionMethod.solve (bisection.py) *)

\* an unbound local variable (xr before the first pass of the loop)
Unbound == 555555555

\* the row of one Bisection or False Position iteration
BracketRow(i, xl, xu, xr, f_xr, error, dp) ==
    ("Iteration" :> i) @@ ("Xl" :> RoundValue(xl, dp)) @@ ("Xu" :> RoundValue(xu, dp))
    @@ ("Xr" :> RoundValue(xr, dp)) @@ ("f(Xr)" :> RoundValue(f_xr, dp))
    @@ ("Error %" :> FormatError(error, dp))

\* a terminal annotation row of Bisection
StatusRow(key, message, status) == (key :> message) @@ ("Status" :> status)

\* the error shown in a bracketing row: "---" first, then the percentage
\* difference, or the absolute one when abs(xr) < 1e-10
BracketDisplayError(i, xr, abs_diff, error) ==
    IF i > 0
    THEN IF NearZero(xr) THEN abs_diff ELSE Percent(abs_diff, xr)
    ELSE error

\* lines 43-78: create f, check the bracket and the bounds
BisectionStart ==
    /\ pc = "bisection"
    /\ LET xl == inp.params["xl"]
           xu == inp.params["xu"]
           f_xl == SafeEval(inp.func, xl)
           f_xu == SafeEval(inp.func, xu)
       IN  IF ~Sympifies(inp.func)
           THEN MethodEnds(Raise("ValueError"), table) /\ UNCHANGED loc
           ELSE IF ~IsNaN(ProdSign(f_xl, f_xu)) /\ ProdSign(f_xl, f_xu) > 0
           THEN /\ MethodEnds(Return(None,
                        << StatusRow("Error", "The interval does not bracket a root", "ERROR") >>,
                        "none"), table)
                /\ UNCHANGED loc
           ELSE IF NearZero(f_xl)
           THEN /\ MethodEnds(Return(xl,
                        << StatusRow("Message", "Lower bound is already a root", "SUCCESS") >>,
                        "none"), table)
                /\ UNCHANGED loc
           ELSE IF NearZero(f_xu)
           THEN /\ MethodEnds(Return(xu,
                        << StatusRow("Message", "Upper bound is already a root", "SUCCESS") >>,
                        "none"), table)
                /\ UNCHANGED loc
           ELSE /\ pc' = "bisection_loop"
                /\ loc' = [of |-> "Bisection", xl |-> xl, xu |-> xu, f_xl |-> f_xl,
                           f_xu |-> f_xu, xr |-> Unbound, xr_old |-> 0, f_xr |-> Unbound,
                           abs_diff |-> Dash, error |-> Dash, i |-> 0]
                /\ UNCHANGED <<mret, table>>
    /\ UNCHANGED <<inp, recorded, estimates, out, nCalls, nSaves, history, prev, other>>

\* lines 80-131: one pass of the loop up to the insertion of its row
BisectionIterate ==
    /\ pc = "bisection_loop"
    /\ loc.i < inp.max_iter
    /\ LET i == loc.i
           xr_old == IF i > 0 THEN loc.xr ELSE loc.xr_old
           xr == RDiv(loc.xl + loc.xu, 2)
           f_xr == SafeEval(inp.func, xr)
           abs_diff == IF i > 0 THEN Abs(xr - xr_old) ELSE Dash
           error == BracketDisplayError(i, xr, abs_diff, loc.error)
       IN  /\ loc' = [loc EXCEPT !.xr_old = xr_old, !.xr = xr, !.f_xr = f_xr,
                                  !.abs_diff = abs_diff, !.error = error]
           /\ table' = Append(table, BracketRow(i, loc.xl, loc.xu, xr, f_xr, error,
                                                inp.decimal_places))
           /\ recorded' = Append(recorded, i)
           /\ estimates' = estimates + 1
    /\ pc' = "bisection_check"
    /\ UNCHANGED <<inp, mret, out, nCalls, nSaves, history, prev, other>>

\* the value compared with eps: the percentage when eps > 1, else abs_diff
ThresholdError(eps, abs_diff, x) ==
    IF eps > 1 * SCALE
    THEN IF ~NearZero(x) THEN Percent(abs_diff, x) ELSE abs_diff
    ELSE abs_diff

\* the Status of Bisection's "Stopped by Epsilon" row
EpsilonStatus(eps_operator) ==
    CASE eps_operator \in {"<=", "<"} -> "CONVERGED"
      [] eps_operator \in {">=", ">"} -> "STOPPED"
      [] OTHER -> "EXACT"

\* lines 133-255: exact root, threshold, else the interval update
BisectionCheck ==
    /\ pc = "bisection_check"
    /\ IF NearZero(loc.f_xr)
       THEN /\ MethodEnds(Return(loc.xr, Append(table,
                    StatusRow("Message", "Exact root found (within numerical precision)", "SUCCESS")),
                    "none"),
                    Append(table,
                    StatusRow("Message", "Exact root found (within numerical precision)", "SUCCESS")))
            /\ UNCHANGED loc
       ELSE IF /\ loc.i > 0
               /\ inp.stop_by_eps
               /\ CheckConvergence(ThresholdError(inp.eps, loc.abs_diff, loc.xr),
                                    inp.eps, inp.eps_operator)
       THEN /\ MethodEnds(Return(loc.xr, Append(table,
                    StatusRow("Message", "Stopped by Epsilon", EpsilonStatus(inp.eps_operator))),
                    "none"),
                    Append(table,
                    StatusRow("Message", "Stopped by Epsilon", EpsilonStatus(inp.eps_operator))))
            /\ UNCHANGED loc
       ELSE /\ pc' = "bisection_loop"
            /\ UNCHANGED mret
            /\ IF ~IsNaN(ProdSign(loc.f_xl, loc.f_xr)) /\ ProdSign(loc.f_xl, loc.f_xr) < 0
               THEN /\ loc' = [loc EXCEPT !.xu = loc.xr, !.f_xu = loc.f_xr, !.i = loc.i + 1]
                    /\ table' = [table EXCEPT ![Len(table)] =
                                    @ @@ ("Interval Update" :> "Upper bound updated")]
               ELSE /\ loc' = [loc EXCEPT !.xl = loc.xr, !.f_xl = loc.f_xr, !.i = loc.i + 1]
                    /\ table' = [table EXCEPT ![Len(table)] =
                                    @ @@ ("Interval Update" :> "Lower bound updated")]
    /\ UNCHANGED <<inp, recorded, estimates, out, nCalls, nSaves, history, prev, other>>

\* lines 257-264: the loop is exhausted
BisectionExhausted ==
    /\ pc = "bisection_loop"
    /\ loc.i >= inp.max_iter
    /\ LET final == Append(table, StatusRow("Message",
                         "Stopped by reaching maximum iterations", "MAX_ITERATIONS"))
       IN  IF loc.xr = Unbound
           THEN MethodEnds(Raise("UnboundLocalError"), final)
           ELSE MethodEnds(Return(loc.xr, final, "none"), final)
    /\ UNCHANGED <<inp, loc, recorded, estimates, out, nCalls, nSaves, history, prev, other>>

----------------------------------------------------------------------------
(* FalsePositionMethod.solve (false_position.py) *)

\* a terminal row of False Position: a dictionary with one key
MessageRow(key, message) == (key :> message)

\* lines 41-57: create f, check the bracket and the bounds
FalsePositionStart ==
    /\ pc = "false_position"
    /\ LET xl == inp.params["xl"]
           xu == inp.params["xu"]
           f_xl == SafeEval(inp.func, xl)
           f_xu == SafeEval(inp.func, xu)
       IN  IF ~Sympifies(inp.func)
           THEN MethodEnds(Raise("ValueError"), table) /\ UNCHANGED loc
           ELSE IF ~IsNaN(ProdSign(f_xl, f_xu)) /\ ProdSign(f_xl, f_xu) > 0
           THEN /\ MethodEnds(Return(None,
                        << MessageRow("Error", "The interval does not bracket a root") >>,
                        "none"), table)
                /\ UNCHANGED loc
           ELSE IF NearZero(f_xl)
           THEN /\ MethodEnds(Return(xl,
                        << MessageRow("Message", "Lower bound is already a root") >>,
                        "none"), table)
                /\ UNCHANGED loc
           ELSE IF NearZero(f_xu)
           THEN /\ MethodEnds(Return(xu,
                        << MessageRow("Message", "Upper bound is already a root") >>,
                        "none"), table)
                /\ UNCHANGED loc
           ELSE /\ pc' = "false_position_loop"
                /\ loc' = [of |-> "False Position", xl |-> xl, xu |-> xu, f_xl |-> f_xl,
                           f_xu |-> f_xu, xr |-> Unbound, xr_old |-> 0, f_xr |-> Unbound,
                           abs_diff |-> Dash, error |-> Dash, i |-> 0]
                /\ UNCHANGED <<mret, table>>
    /\ UNCHANGED <<inp, recorded, estimates, out, nCalls, nSaves, history, prev, other>>

\* xl - (f_xl * (xu - xl)) / (f_xu - f_xl), the denominator not zero
Interpolate(xl, xu, f_xl, f_xu) ==
    IF IsNaN(xl) \/ IsNaN(xu) \/ IsNaN(f_xl) \/ IsNaN(f_xu) THEN NaN
    ELSE xl - RDiv(f_xl * (xu - xl), f_xu - f_xl)

\* lines 59-90: one pass of the loop up to the insertion of its row
FalsePositionIterate ==
    /\ pc = "false_position_loop"
    /\ loc.i < inp.max_iter
    /\ IF ~IsNaN(loc.f_xl) /\ ~IsNaN(loc.f_xu) /\ loc.f_xu = loc.f_xl
       THEN /\ MethodEnds(Raise("ZeroDivisionError"), table)
            /\ UNCHANGED <<loc, recorded, estimates>>
       ELSE LET i == loc.i
                xr_old == IF i > 0 THEN loc.xr ELSE loc.xr_old
                xr == Interpolate(loc.xl, loc.xu, loc.f_xl, loc.f_xu)
                f_xr == SafeEval(inp.func, xr)
                abs_diff == IF i > 0 THEN Abs(Sub(xr, xr_old)) ELSE Dash
                error == BracketDisplayError(i, xr, abs_diff, loc.error)
            IN  /\ loc' = [loc EXCEPT !.xr_old = xr_old, !.xr = xr, !.f_xr = f_xr,
                                       !.abs_diff = abs_diff, !.error = error]
                /\ table' = Append(table, BracketRow(i, loc.xl, loc.xu, xr, f_xr, error,
                                                     inp.decimal_places))
                /\ recorded' = Append(recorded, i)
                /\ estimates' = estimates + 1
                /\ pc' = "false_position_check"
                /\ UNCHANGED mret
    /\ UNCHANGED <<inp, out, nCalls, nSaves, history, prev, other>>

\* lines 92-127: exact root, threshold, else the interval update
FalsePositionCheck ==
    /\ pc = "false_position_check"
    /\ IF NearZero(loc.f_xr)
       THEN /\ MethodEnds(Return(loc.xr, Append(table,
                    MessageRow("Message", "Exact root found (within numerical precision)")),
                    "none"),
                    Append(table,
                    MessageRow("Message", "Exact root found (within numerical precision)")))
            /\ UNCHANGED loc
       ELSE IF /\ loc.i > 0
               /\ inp.stop_by_eps
               /\ CheckConvergence(loc.abs_diff, inp.eps, inp.eps_operator)
       THEN /\ MethodEnds(Return(loc.xr, Append(table,
                    MessageRow("Message", "Stopped by Epsilon")), "none"),
                    Append(table, MessageRow("Message", "Stopped by Epsilon")))
            /\ UNCHANGED loc
       ELSE /\ pc' = "false_position_loop"
            /\ UNCHANGED <<mret, table>>
            /\ IF ~IsNaN(ProdSign(loc.f_xl, loc.f_xr)) /\ ProdSign(loc.f_xl, loc.f_xr) < 0
               THEN loc' = [loc EXCEPT !.xu = loc.xr, !.f_xu = loc.f_xr, !.i = loc.i + 1]
               ELSE loc' = [loc EXCEPT !.xl = loc.xr, !.f_xl = loc.f_xr, !.i = loc.i + 1]
    /\ UNCHANGED <<inp, recorded, estimates, out, nCalls, nSaves, history, prev, other>>

\* lines 129-131: the loop is exhausted
FalsePositionExhausted ==
    /\ pc = "false_position_loop"
    /\ loc.i >= inp.max_iter
    /\ LET final == Append(table, MessageRow("Message",
                         "Stopped by reaching maximum iterations"))
       IN  IF loc.xr = Unbound
           THEN MethodEnds(Raise("UnboundLocalError"), final)
           ELSE MethodEnds(Return(loc.xr, final, "none"), final)
    /\ UNCHANGED <<inp, loc, recorded, estimates, out, nCalls, nSaves, history, prev, other>>

----------------------------------------------------------------------------
(* SecantMethod.solve (secant.py) *)

\* the row of the two seeds, inserted before the loop
SecantInitialRow(x0, x1, f_x0, f_x1, dp) ==
    ("Initial Points" :> "Values") @@ ("x0" :> RoundValue(x0, dp))
    @@ ("f(x0)" :> RoundValue(f_x0, dp)) @@ ("x1" :> RoundValue(x1, dp))
    @@ ("f(x1)" :> RoundValue(f_x1, dp))

\* the row of one Secant iteration; x_next is "---" on the row of index 0
SecantRow(i, x0, x1, f_x0, f_x1, x_next, f_x_next, error, status, dp) ==
    ("Iteration" :> i) @@ ("Xi-1" :> RoundValue(x0, dp)) @@ ("Xi" :> RoundValue(x1, dp))
    @@ ("f(Xi-1)" :> RoundValue(f_x0, dp)) @@ ("f(Xi)" :> RoundValue(f_x1, dp))
    @@ ("Xi+1" :> IF x_next = Dash THEN Dash ELSE RoundValue(x_next, dp))
    @@ (IF x_next = Dash THEN << >> ELSE ("f(Xi+1)" :> RoundValue(f_x_next, dp)))
    @@ ("Error %" :> FormatError(error, dp)) @@ ("Status" :> status)

\* the row the except clause of SecantMethod.solve answers with
SecantErrorRow == StatusRow("Error", "An unexpected error occurred", "ERROR")

\* lines 63-109: create f, check the seeds, insert the two opening rows
SecantStart ==
    /\ pc = "secant"
    /\ LET x0 == inp.params["xi_minus_1"]
           x1 == inp.params["xi"]
           f_x0 == SafeEval(inp.func, x0)
           f_x1 == SafeEval(inp.func, x1)
           dp == inp.decimal_places
       IN  IF ~Sympifies(inp.func)
           THEN /\ MethodEnds(Return(None, << SecantErrorRow >>, "none"), table)
                /\ UNCHANGED <<loc, recorded>>
           ELSE IF NearZero(f_x0)
           THEN /\ MethodEnds(Return(x0,
                        << StatusRow("Message", "First initial guess is already a root", "SUCCESS") >>,
                        "none"), table)
                /\ UNCHANGED <<loc, recorded>>
           ELSE IF NearZero(f_x1)
           THEN /\ MethodEnds(Return(x1,
                        << StatusRow("Message", "Second initial guess is already a root", "SUCCESS") >>,
                        "none"), table)
                /\ UNCHANGED <<loc, recorded>>
           ELSE /\ pc' = "secant_loop"
                /\ loc' = [of |-> "Secant", x0 |-> x0, x1 |-> x1, f_x0 |-> f_x0,
                           f_x1 |-> f_x1, x_next |-> Unbound, f_x_next |-> Unbound, i |-> 1]
                /\ table' = << SecantInitialRow(x0, x1, f_x0, f_x1, dp),
                               SecantRow(0, x0, x1, f_x0, f_x1, Dash, Dash, Dash,
                                         "Starting...", dp) >>
                /\ recorded' = Append(recorded, 0)
                /\ UNCHANGED mret
    /\ UNCHANGED <<inp, estimates, out, nCalls, nSaves, history, prev, other>>

\* x1 - f_x1 * (x1 - x0) / (f_x1 - f_x0), the denominator not zero
SecantStep(x0, x1, f_x0, f_x1) ==
    IF IsNaN(x0) \/ IsNaN(x1) \/ IsNaN(f_x0) \/ IsNaN(f_x1) THEN NaN
    ELSE x1 - RDiv(f_x1 * (x1 - x0), f_x1 - f_x0)

\* the error of a Secant row: absolute when abs(x_next) < 1e-10, else a percentage
SecantError(x_next, x1) ==
    IF NearZero(x_next) THEN Abs(x_next - x1) ELSE Percent(Abs(x_next - x1), x_next)

\* SecantIterate with the guard of lines 114-121 placed after the division of
\* line 124: an estimate is computed from the collapsed denominator
SecantIterateDividesAnyway ==
    /\ pc = "secant_loop"
    /\ loc.i <= inp.max_iter
    /\ IF NearZero(Sub(loc.f_x1, loc.f_x0))
       THEN /\ MethodEnds(Return(loc.x1, Append(table,
                    StatusRow("Warning", "Secant denominator is too close to zero",
                              "ZERO_DENOMINATOR")), "none"),
                    Append(table,
                    StatusRow("Warning", "Secant denominator is too close to zero",
                              "ZERO_DENOMINATOR")))
            /\ estimates' = estimates + 1
            /\ UNCHANGED <<loc, recorded>>
       ELSE LET x_next == SecantStep(loc.x0, loc.x1, loc.f_x0, loc.f_x1)
                f_x_next == SafeEval(inp.func, x_next)
            IN  IF IsNaN(x_next)
                THEN /\ MethodEnds(Return(loc.x1, Append(table,
                             StatusRow("Error", "Invalid value: NaN", "INVALID_VALUE")),
                             "none"),
                             Append(table,
                             StatusRow("Error", "Invalid value: NaN", "INVALID_VALUE")))
                     /\ estimates' = estimates + 1
                     /\ UNCHANGED <<loc, recorded>>
                ELSE /\ loc' = [loc EXCEPT !.x_next = x_next, !.f_x_next = f_x_next]
                     /\ table' = Append(table,
                            SecantRow(loc.i, loc.x0, loc.x1, loc.f_x0, loc.f_x1, x_next,
                                      f_x_next, SecantError(x_next, loc.x1),
                                      IF loc.i < inp.max_iter THEN "Searching..."
                                      ELSE "Max iterations reached",
                                      inp.decimal_places))
                     /\ recorded' = Append(recorded, loc.i)
                     /\ estimates' = estimates + 1
                     /\ pc' = "secant_check"
                     /\ UNCHANGED mret
    /\ UNCHANGED <<inp, out, nCalls, nSaves, history, prev, other>>

\* lines 112-165: one pass of the loop up to the insertion of its row
SecantIterate ==
    /\ pc = "secant_loop"
    /\ loc.i <= inp.max_iter
    /\ IF NearZero(Sub(loc.f_x1, loc.f_x0))
       THEN /\ MethodEnds(Return(loc.x1, Append(table,
                    StatusRow("Warning", "Secant denominator is too close to zero",
                              "ZERO_DENOMINATOR")), "none"),
                    Append(table,
                    StatusRow("Warning", "Secant denominator is too close to zero",
                              "ZERO_DENOMINATOR")))
            /\ UNCHANGED <<loc, recorded, estimates>>
       ELSE LET x_next == SecantStep(loc.x0, loc.x1, loc.f_x0, loc.f_x1)
                f_x_next == SafeEval(inp.func, x_next)
            IN  IF IsNaN(x_next)
                THEN /\ MethodEnds(Return(loc.x1, Append(table,
                             StatusRow("Error", "Invalid value: NaN", "INVALID_VALUE")),
                             "none"),
                             Append(table,
                             StatusRow("Error", "Invalid value: NaN", "INVALID_VALUE")))
                     /\ estimates' = estimates + 1
                     /\ UNCHANGED <<loc, recorded>>
                ELSE /\ loc' = [loc EXCEPT !.x_next = x_next, !.f_x_next = f_x_next]
                     /\ table' = Append(table,
                            SecantRow(loc.i, loc.x0, loc.x1, loc.f_x0, loc.f_x1, x_next,
                                      f_x_next, SecantError(x_next, loc.x1),
                                      IF loc.i < inp.max_iter THEN "Searching..."
                                      ELSE "Max iterations reached",
                                      inp.decimal_places))
                     /\ recorded' = Append(recorded, loc.i)
                     /\ estimates' = estimates + 1
                     /\ pc' = "secant_check"
                     /\ UNCHANGED mret
    /\ UNCHANGED <<inp, out, nCalls, nSaves, history, prev, other>>

\* lines 167-246: exact root, threshold, else shift the two estimates
SecantCheck ==
    /\ pc = "secant_check"
    /\ IF NearZero(loc.f_x_next)
       THEN /\ MethodEnds(Return(loc.x_next, Append(table,
                    StatusRow("Message", "Exact root found (within numerical precision)", "SUCCESS")),
                    "none"),
                    Append(table,
                    StatusRow("Message", "Exact root found (within numerical precision)", "SUCCESS")))
            /\ UNCHANGED loc
       ELSE IF /\ inp.stop_by_eps
               /\ CheckConvergence(ThresholdError(inp.eps, Abs(loc.x_next - loc.x1), loc.x_next),
                                    inp.eps, inp.eps_operator)
       THEN /\ MethodEnds(Return(loc.x_next, Append(table,
                    StatusRow("Message", "Stopped by Epsilon", "CONVERGED")), "none"),
                    Append(table, StatusRow("Message", "Stopped by Epsilon", "CONVERGED")))
            /\ UNCHANGED loc
       ELSE /\ pc' = "secant_loop"
            /\ loc' = [loc EXCEPT !.x0 = loc.x1, !.f_x0 = loc.f_x1, !.x1 = loc.x_next,
                                   !.f_x1 = loc.f_x_next, !.i = loc.i + 1]
            /\ UNCHANGED <<mret, table>>
    /\ UNCHANGED <<inp, recorded, estimates, out, nCalls, nSaves, history, prev, other>>

\* lines 248-255: the loop is exhausted
SecantExhausted ==
    /\ pc = "secant_loop"
    /\ loc.i > inp.max_iter
    /\ LET final == Append(table, StatusRow("Message", "Maximum iterations reached",
                                             "MAX_ITERATIONS"))
       IN  MethodEnds(Return(loc.x1, final, "none"), final)
    /\ UNCHANGED <<inp, loc, recorded, estimates, out, nCalls, nSaves, history, prev, other>>

----------------------------------------------------------------------------
(* FixedPointMethod (fixed_point.py) *)

\* derive_gx, lines 70-264: the candidates g for f, in the order they are tried.
\*   "x**2 - 4": the highest-degree term isolated, sqrt(4) = "2"; sp.solve gives
\*               only constants, which are skipped; then x - f(x); then x + 0.1*f(x)
\*   "x":        the highest-degree term isolated, "0"; then x - f(x) = "0";
\*               the linear term isolated, "0"; then x + 0.1*f(x)
\*   "1/x":      not a polynomial and sp.solve finds nothing: x - f(x), then x + 0.1*f(x)
GCandidates(func) ==
    CASE func = "x**2 - 4" -> << "2", "-x**2 + x + 4", "0.1*x**2 + x - 0.4" >>
      [] func = "x"        -> << "0", "0", "0", "1.1*x" >>
      [] func = "1/x"      -> << "x - 1/x", "x + 0.1/x" >>

\* safe_eval of a candidate g at the float x
GEval(g, x) ==
    IF IsNaN(x) THEN NaN
    ELSE CASE g = "2" -> 2 * SCALE
           [] g = "0" -> 0
           [] g = "-x**2 + x + 4" -> x + 4 * SCALE - RDiv(x * x, SCALE)
           [] g = "0.1*x**2 + x - 0.4" -> x + RDiv(x * x - 4 * SCALE * SCALE, 10 * SCALE)
           [] g = "1.1*x" -> RDiv(11 * x, 10)
           [] g = "x - 1/x" -> IF x = 0 THEN NaN ELSE x - RDiv(SCALE * SCALE, x)
           [] g = "x + 0.1/x" -> IF x = 0 THEN NaN ELSE x + RDiv(SCALE * SCALE, 10 * x)

\* _check_convergence(g, x0), lines 283-297: the derivative that is taken is
\* that of str(g(x0)), the text of a number, and the derivative of a number
\* is 0; when the text does not parse the except clause answers True
GPrimeValue(g, x0) == 0

CheckGConvergence(g, x0) == GPrimeValue(g, x0) < 1 * SCALE

\* the candidates that pass the check, in order
RECURSIVE Accepted(_, _)
Accepted(cands, x0) ==
    IF cands = << >> THEN << >>
    ELSE IF CheckGConvergence(Head(cands), x0)
         THEN << Head(cands) >> \o Accepted(Tail(cands), x0)
         ELSE Accepted(Tail(cands), x0)

\* derive_gx(fx_str, x0): the g that is returned, "error" for (None, message)
derive_gx(func, x0) ==
    IF ~Sympifies(func) THEN "error"
    ELSE IF Accepted(GCandidates(func), x0) = << >> THEN "error"
    ELSE Head(Accepted(GCandidates(func), x0))

\* _format_value: the value printed with dp decimal places
FormatValue(value, decimal_places) == RoundValue(value, decimal_places)

\* the row of one Fixed Point iteration
FixedPointRow(iter_count, xi, g_xi, xi_plus_1, error, dp) ==
    ("Iteration" :> iter_count) @@ ("Xi" :> RoundValue(xi, dp))
    @@ ("g(Xi)" :> RoundValue(g_xi, dp)) @@ ("Xi+1" :> RoundValue(xi_plus_1, dp))
    @@ ("Error %" :> IF iter_count = 0 THEN Dash ELSE FormatValue(error, dp))

\* lines 334-344: derive g, initialise
FixedPointStart ==
    /\ pc = "fixed_point"
    /\ LET x0 == inp.params["xi"]
           g == derive_gx(inp.func, x0)
       IN  IF g = "error"
           THEN /\ MethodEnds(Return(None, << MessageRow("Error", "Error deriving g(x)") >>,
                                     "none"), table)
                /\ UNCHANGED loc
           ELSE /\ pc' = "fixed_point_loop"
                /\ loc' = [of |-> "Fixed Point", g |-> g, xi |-> x0, iter_count |-> 0,
                           error |-> 100 * SCALE]
                /\ UNCHANGED <<mret, table>>
    /\ UNCHANGED <<inp, recorded, estimates, out, nCalls, nSaves, history, prev, other>>

\* the loop goes on: error > eps or the first pass, and the cap not reached
FixedPointContinues(error, eps, iter_count, max_iter) ==
    (Lt(eps, error) \/ iter_count = 1) /\ ~(iter_count >= max_iter)

\* lines 347-387: one pass of the while True loop, and the return after a break
FixedPointIterate ==
    /\ pc = "fixed_point_loop"
    /\ LET xi == loc.xi
           g_xi == GEval(loc.g, xi)
           xi_plus_1 == g_xi
           iter_count == loc.iter_count
       IN  IF IsNaN(g_xi)
           THEN /\ MethodEnds(Return(None, << MessageRow("Error", "NaN value encountered") >>,
                                     "none"), table)
                /\ UNCHANGED <<loc, recorded, estimates>>
           ELSE IF iter_count > 0 /\ xi_plus_1 = 0
           THEN \* abs((xi_plus_1 - xi) / xi_plus_1): ZeroDivisionError, caught at line 382
                /\ MethodEnds(Return(None, << MessageRow("Error", "Error during iteration") >>,
                                     "none"), table)
                /\ estimates' = estimates + 1
                /\ UNCHANGED <<loc, recorded>>
           ELSE LET error == IF iter_count > 0
                             THEN Percent(Abs(xi_plus_1 - xi), xi_plus_1)
                             ELSE loc.error
                    row == FixedPointRow(iter_count, xi, g_xi, xi_plus_1, error,
                                         inp.decimal_places)
                IN  /\ recorded' = Append(recorded, iter_count)
                    /\ estimates' = estimates + 1
                    /\ loc' = [loc EXCEPT !.xi = xi_plus_1, !.iter_count = iter_count + 1,
                                           !.error = error]
                    /\ IF FixedPointContinues(error, inp.eps, iter_count + 1, inp.max_iter)
                       THEN /\ table' = Append(table, row)
                            /\ pc' = "fixed_point_loop"
                            /\ UNCHANGED mret
                       ELSE MethodEnds(Return(xi_plus_1, Append(table, row), "none"),
                                       Append(table, row))
    /\ UNCHANGED <<inp, out, nCalls, nSaves, history, prev, other>>

----------------------------------------------------------------------------
(* NewtonRaphsonMethod (newton_raphson.py) *)

\* float('inf'), the relative error when the estimate is 0 and the step is not
Inf == 444444444

\* self.divergence_threshold = 1e15: above every number of the grid
divergence_threshold == 2000000000

\* the text compiles as the body of a Python function (_create_function, exec)
Compiles(func) == func \in {"x**2 - 4", "x", "1/x"} \cup CyclingFuncs

\* f(x) of NewtonRaphsonMethod._create_function: the expression evaluated by
\* Python, or the function that answers NaN when the text did not compile
NewtonF(func, x) ==
    IF ~Compiles(func) \/ IsNaN(x) THEN NaN ELSE ExprValue(func, x)

\* f(x) raises instead of answering (float division by zero)
NewtonFRaises(func, x) == Compiles(func) /\ DividesByZero(func, x)

\* f_prime(x) of _create_derivative: the symbolic derivative evaluated by
\* Python, or the function that answers NaN when sympify failed
NewtonFPrime(func, x) ==
    IF ~Sympifies(func) \/ IsNaN(x) THEN NaN
    ELSE CASE func = "x**2 - 4" -> 2 * x
           [] func = "x"        -> 1 * SCALE
           [] func = "1/x"      -> 0 - RDiv(RDiv(SCALE * SCALE, x) * SCALE, x)
           [] func = "x**3 - 2*x + 2" -> 3 * RDiv(x * x, SCALE) - 2 * SCALE
           [] func = "x**2 - 2*x + 2" -> 2 * x - 2 * SCALE

\* table[f"Iteration {key}"] = row on an OrderedDict: a new key is appended,
\* an existing key keeps its place and gets the new row
Put(tbl, key, row) ==
    IF \E k \in 1 .. Len(tbl) : tbl[k].key = key
    THEN [k \in 1 .. Len(tbl) |-> IF tbl[k].key = key THEN [key |-> key, row |-> row]
                                  ELSE tbl[k]]
    ELSE Append(tbl, [key |-> key, row |-> row])

\* NewtonRaphsonMethod._round_value: round(value, dp), tokens for NaN and Inf
NewtonRound(value, dp) ==
    IF IsNaN(value) \/ value = Inf \/ value = Dash THEN value ELSE RoundValue(value, dp)

\* the row of one Newton-Raphson iteration
NewtonRow(iter_count, x_old, fx, fpx, error_display, x_next, dp) ==
    ("Iteration" :> iter_count) @@ ("Xi" :> NewtonRound(x_old, dp))
    @@ ("f(Xi)" :> NewtonRound(fx, dp)) @@ ("f'(Xi)" :> NewtonRound(fpx, dp))
    @@ ("Error %" :> error_display) @@ ("Xi+1" :> NewtonRound(x_next, dp))

\* a terminal row of Newton-Raphson
NewtonNote(iter_count, key, message) == ("Iteration" :> iter_count) @@ (key :> message)

\* NewtonRaphsonResult(root, [], status, messages, DataFrame(table)) unpacked
\* by __iter__ into (root, iterations): the iterations list is always []
NewtonResult(root, status) == Return(root, << >>, status)

\* lines 262-321: create f and f', check the initial guess
NewtonStart ==
    /\ pc = "newton"
    /\ LET x_current == inp.params["xi"]
           dp == inp.decimal_places
       IN  IF NewtonFRaises(inp.func, x_current)
           THEN MethodEnds(NewtonResult(None, "error"),
                    Put(table, 0, ("Iteration" :> "Error") @@ ("Xi" :> NewtonRound(x_current, dp))))
                /\ UNCHANGED loc
           ELSE IF NearZero(NewtonF(inp.func, x_current))
           THEN MethodEnds(NewtonResult(x_current, "converged"),
                    Put(Put(table, 0, ("Iteration" :> "Info") @@ ("Xi" :> NewtonRound(x_current, dp))),
                        1, ("Iteration" :> "Result") @@ ("Xi" :> NewtonRound(x_current, dp))))
                /\ UNCHANGED loc
           ELSE /\ pc' = "newton_loop"
                /\ loc' = [of |-> "Newton-Raphson", x_current |-> x_current,
                           x_old |-> Unbound, iter_count |-> 0, i |-> 0,
                           relative_error |-> Inf, error_display |-> Dash,
                           previous_values |-> << >>]
                /\ UNCHANGED <<mret, table>>
    /\ UNCHANGED <<inp, recorded, estimates, out, nCalls, nSaves, history, prev, other>>

\* lines 402-411: the relative error in percent
NewtonRelativeError(x_current, abs_diff) ==
    IF ~NearZero(x_current) THEN Percent(abs_diff, x_current)
    ELSE IF NearZero(abs_diff) THEN 0
    ELSE Inf

\* NewtonRaphsonMethod._format_error: dp decimal places, a token for Inf
NewtonFormatError(error, dp) == IF error = Inf THEN Inf ELSE RoundValue(error, dp)

\* NewtonIterate with the zero-derivative return of lines 334-354 taken for the
\* numerical-error return of lines 383-400
NewtonIterateDividesAnyway ==
    /\ pc = "newton_loop"
    /\ loc.i < inp.max_iter
    /\ LET iter_count == loc.i + 1
           x_old == loc.x_current
           dp == inp.decimal_places
           fx == NewtonF(inp.func, x_old)
           fpx == NewtonFPrime(inp.func, x_old)
       IN  IF NewtonFRaises(inp.func, x_old)
           THEN /\ MethodEnds(NewtonResult(None, "error"),
                       Put(table, iter_count, NewtonNote(iter_count, "Error", "Error")))
                /\ UNCHANGED <<loc, recorded, estimates>>
           ELSE IF NearZero(fpx) \/ IsNaN(fpx)
           THEN /\ MethodEnds(NewtonResult(None, "numerical_error"),
                       Put(Put(table, iter_count,
                               NewtonRow(iter_count, x_old, fx, fpx, loc.error_display, Dash, dp)),
                           iter_count + 1,
                           NewtonNote(iter_count + 1, "Warning",
                                      "Derivative is zero or very close to zero")))
                /\ recorded' = Append(recorded, iter_count)
                /\ UNCHANGED <<loc, estimates>>
           ELSE IF IsNaN(fx)
           THEN /\ MethodEnds(NewtonResult(None, "numerical_error"),
                       Put(Put(table, iter_count,
                               NewtonRow(iter_count, x_old, fx, fpx, loc.error_display, Dash, dp)),
                           iter_count + 1,
                           NewtonNote(iter_count + 1, "Warning",
                                      "Function value is invalid (NaN)")))
                /\ recorded' = Append(recorded, iter_count)
                /\ UNCHANGED <<loc, estimates>>
           ELSE LET x_current == x_old - RDiv(fx * SCALE, fpx)
                    abs_diff == Abs(x_current - x_old)
                    relative_error == NewtonRelativeError(x_current, abs_diff)
                    error_display == NewtonFormatError(relative_error, dp)
                IN  /\ loc' = [loc EXCEPT !.x_old = x_old, !.x_current = x_current,
                                           !.iter_count = iter_count,
                                           !.relative_error = relative_error,
                                           !.error_display = error_display]
                    /\ table' = Put(table, iter_count,
                                    NewtonRow(iter_count, x_old, fx, fpx, error_display,
                                              x_current, dp))
                    /\ recorded' = Append(recorded, iter_count)
                    /\ estimates' = estimates + 1
                    /\ pc' = "newton_check"
                    /\ UNCHANGED mret
    /\ UNCHANGED <<inp, out, nCalls, nSaves, history, prev, other>>

\* lines 324-434: one pass of the loop up to the insertion of its row
NewtonIterate ==
    /\ pc = "newton_loop"
    /\ loc.i < inp.max_iter
    /\ LET iter_count == loc.i + 1
           x_old == loc.x_current
           dp == inp.decimal_places
           fx == NewtonF(inp.func, x_old)
           fpx == NewtonFPrime(inp.func, x_old)
       IN  IF NewtonFRaises(inp.func, x_old)
           THEN /\ MethodEnds(NewtonResult(None, "error"),
                       Put(table, iter_count, NewtonNote(iter_count, "Error", "Error")))
                /\ UNCHANGED <<loc, recorded, estimates>>
           ELSE IF NearZero(fpx) \/ IsNaN(fpx)
           THEN /\ MethodEnds(NewtonResult(x_old, "zero_derivative"),
                       Put(Put(table, iter_count,
                               NewtonRow(iter_count, x_old, fx, fpx, loc.error_display, Dash, dp)),
                           iter_count + 1,
                           NewtonNote(iter_count + 1, "Warning",
                                      "Derivative is zero or very close to zero")))
                /\ recorded' = Append(recorded, iter_count)
                /\ UNCHANGED <<loc, estimates>>
           ELSE IF IsNaN(fx)
           THEN /\ MethodEnds(NewtonResult(None, "numerical_error"),
                       Put(Put(table, iter_count,
                               NewtonRow(iter_count, x_old, fx, fpx, loc.error_display, Dash, dp)),
                           iter_count + 1,
                           NewtonNote(iter_count + 1, "Warning",
                                      "Function value is invalid (NaN)")))
                /\ recorded' = Append(recorded, iter_count)
                /\ UNCHANGED <<loc, estimates>>
           ELSE LET x_current == x_old - RDiv(fx * SCALE, fpx)
                    abs_diff == Abs(x_current - x_old)
                    relative_error == NewtonRelativeError(x_current, abs_diff)
                    error_display == NewtonFormatError(relative_error, dp)
                IN  /\ loc' = [loc EXCEPT !.x_old = x_old, !.x_current = x_current,
                                           !.iter_count = iter_count,
                                           !.relative_error = relative_error,
                                           !.error_display = error_display]
                    /\ table' = Put(table, iter_count,
                                    NewtonRow(iter_count, x_old, fx, fpx, error_display,
                                              x_current, dp))
                    /\ recorded' = Append(recorded, iter_count)
                    /\ estimates' = estimates + 1
                    /\ pc' = "newton_check"
                    /\ UNCHANGED mret
    /\ UNCHANGED <<inp, out, nCalls, nSaves, history, prev, other>>

\* NewtonRaphsonMethod._check_convergence: never true for NaN or Inf, "=" with
\* the tolerance 1e-9, False for an operator it does not know
NewtonCheckConvergence(error, eps, eps_operator) ==
    IF IsNaN(error) \/ error = Inf THEN FALSE
    ELSE CASE eps_operator = "<=" -> error <= eps
           [] eps_operator = ">=" -> error >= eps
           [] eps_operator = "<"  -> error < eps
           [] eps_operator = ">"  -> error > eps
           [] eps_operator = "="  -> error = eps
           [] OTHER -> FALSE

\* abs(x_current) > self.divergence_threshold
Diverged(x) == Abs(x) > divergence_threshold

\* lines 484-492: with two or more remembered values, one of them lies within
\* 1e-6 of the new estimate
Oscillates(previous_values, x) ==
    /\ Len(previous_values) >= 2
    /\ \E k \in 1 .. Len(previous_values) : previous_values[k] = x

\* lines 495-497: remember the estimate, keep the last five
Remember(previous_values, x) ==
    LET all == Append(previous_values, x)
    IN  IF Len(all) > 5 THEN Tail(all) ELSE all

\* lines 436-497: after the row, the checks that end the method or let it go on
NewtonCheck ==
    /\ pc = "newton_check"
    /\ LET x_current == loc.x_current
           iter_count == loc.iter_count
           dp == inp.decimal_places
       IN  IF NearZero(NewtonF(inp.func, x_current))
           THEN /\ MethodEnds(NewtonResult(x_current, "converged"),
                       Put(table, iter_count + 1,
                           NewtonNote(iter_count + 1, "Result",
                                      "Exact root found (within numerical precision)")))
                /\ UNCHANGED loc
           ELSE IF /\ loc.i > 0
                   /\ inp.stop_by_eps
                   /\ NewtonCheckConvergence(loc.relative_error, inp.eps, inp.eps_operator)
           THEN /\ MethodEnds(NewtonResult(x_current, "converged"),
                       Put(table, iter_count + 1,
                           NewtonNote(iter_count + 1, "Result", "Converged")))
                /\ UNCHANGED loc
           ELSE IF Diverged(x_current)
           THEN /\ MethodEnds(NewtonResult(None, "diverged"),
                       Put(table, iter_count,
                           NewtonNote(iter_count, "Warning", "Method is diverging")))
                /\ UNCHANGED loc
           ELSE IF Oscillates(loc.previous_values, x_current)
           THEN /\ MethodEnds(NewtonResult(x_current, "oscillating"),
                       Put(table, iter_count,
                           NewtonNote(iter_count, "Warning",
                                      "Method is oscillating between values")))
                /\ UNCHANGED loc
           ELSE /\ loc' = [loc EXCEPT !.i = loc.i + 1,
                                      !.previous_values = Remember(loc.previous_values, x_current)]
                /\ pc' = "newton_loop"
                /\ UNCHANGED <<mret, table>>
    /\ UNCHANGED <<inp, recorded, estimates, out, nCalls, nSaves, history, prev, other>>

\* lines 508-515: the loop ran out; the row goes under the key of the last pass
NewtonExhausted ==
    /\ pc = "newton_loop"
    /\ loc.i >= inp.max_iter
    /\ MethodEnds(NewtonResult(None, "max_iterations"),
           Put(table, loc.iter_count,
               NewtonNote(loc.iter_count, "Result", "Maximum iterations reached")))
    /\ UNCHANGED <<inp, loc, recorded, estimates, out, nCalls, nSaves, history, prev, other>>

----------------------------------------------------------------------------
(* HistoryManager.save_solution (history.py 69-103) and the end of Solver.solve *)

\* what the file system does to save_solution: the entry is written; opening
\* the file for writing fails with an IOError (caught, the answer is False);
\* the file holds bytes that are no UTF-8 text, so that json.load raises a
\* UnicodeDecodeError, which is neither an IOError nor a JSONDecodeError
SaveOutcomes == {"written", "IOError", "UnicodeDecodeError"}

\* save_solution raises instead of answering True or False
SaveRaises(outcome) == outcome = "UnicodeDecodeError"

\* the stored entries after save_solution(func, method, root, table)
SaveSolution(h, func, method, root, trace, outcome) ==
    IF outcome = "written"
    THEN Append(h, [function |-> func, method |-> method, root |-> root, table |-> trace])
    ELSE h

\* what Solver.solve answers from its except clause
SolverError == SolverReturn(None, << [Error |-> "Solver error"] >>)

\* solver.py 251-264: offer the result to the history, return it
SolverFinish ==
    /\ pc = "returned"
    /\ pc' = "done"
    /\ IF mret.kind = "raise"
       THEN /\ out' = SolverError
            /\ UNCHANGED <<nSaves, history>>
       ELSE IF mret.root # None
       THEN /\ nSaves' = nSaves + 1
            /\ \E outcome \in SaveOutcomes :
                  /\ history' = SaveSolution(history, inp.func, inp.method_name,
                                             mret.root, mret.trace, outcome)
                  /\ out' = IF SaveRaises(outcome) THEN SolverError
                            ELSE SolverReturn(mret.root, mret.trace)
       ELSE /\ out' = SolverReturn(mret.root, mret.trace)
            /\ UNCHANGED <<nSaves, history>>
    /\ UNCHANGED <<inp, loc, table, recorded, estimates, mret, nCalls, prev, other>>

----------------------------------------------------------------------------
(* The specification *)

Call ==
    /\ pc = "idle"
    /\ \E method_name \in CallNames, func \in Funcs, eps \in EpsVals,
       eps_operator \in EpsOperators, max_iter \in MaxIterVals,
       stop_by_eps \in BOOLEAN, decimal_places \in DecimalPlacesVals :
       \E params \in ParamsFor(method_name) :
          SolveCall(method_name, func, params, eps, eps_operator, max_iter,
                    stop_by_eps, decimal_places)

Next ==
    \/ Call
    \/ BisectionStart
    \/ BisectionIterate
    \/ BisectionCheck
    \/ BisectionExhausted
    \/ FalsePositionStart
    \/ FalsePositionIterate
    \/ FalsePositionCheck
    \/ FalsePositionExhausted
    \/ SecantStart
    \/ SecantIterate
    \/ SecantCheck
    \/ SecantExhausted
    \/ FixedPointStart
    \/ FixedPointIterate
    \/ NewtonStart
    \/ NewtonIterate
    \/ NewtonCheck
    \/ NewtonExhausted
    \/ SolverFinish

Spec == Init /\ [][Next]_vars

----------------------------------------------------------------------------
(* The worked example: Bisection on x**2 - 4 over [0, 3] with the Solver's
   default policy (eps 0.0001, "<=", cap 50, stop_by_eps True).  The
   threshold is below the step of the grid above, so this specification
   measures x in ticks of 3/Ticks: every bound and midpoint of the first
   fifteen bisections of [0, 3] is a whole number of ticks, and the float
   arithmetic of bisection.py on them is exact. *)

\* ticks in the width of the bracket [0, 3]: 2^15
Ticks == 32768

\* the Solver's default iteration cap (solver.py 40)
ExampleCap == 50

\* the caps the example is run with
ExampleCaps == 0 .. ExampleCap

\* f(x) = x**2 - 4 = (x - 2)(x + 2) at x ticks, in units of 64/Ticks^2 with
\* the second factor truncated: the sign of f is exact, and abs(f) < 1e-10
\* exactly when the value is 0 (3x = 2 Ticks)
ExampleF(x) == (3 * x - 2 * Ticks) * ((3 * x + 2 * Ticks) \div 64)

\* abs_diff (in ticks) and eps = 0.0001 brought to one unit for the comparison:
\* abs_diff * 3/Ticks <op> 1/10000
ExampleError(abs_diff) == abs_diff * 30000

ExampleEps == Ticks

\* round(root, 4) == 2.0 for a root of r ticks: abs(3r/Ticks - 2) < 0.00005
EqualsTwoTo4Places(r) == Abs(3 * r - 2 * Ticks) * 20000 < Ticks

\* the row of one iteration of the example; the values are kept in ticks
ExampleRow(i, xl, xu, xr, f_xr) ==
    ("Iteration" :> i) @@ ("Xl" :> xl) @@ ("Xu" :> xu) @@ ("Xr" :> xr) @@ ("f(Xr)" :> f_xr)

\* solver.py 170-227: the call passes validation and is dispatched
ExampleCall ==
    /\ pc = "idle"
    /\ \E max_iter \in ExampleCaps :
          inp' = [method_name |-> "Bisection", func |-> "x**2 - 4",
                  params |-> [xl |-> 0, xu |-> Ticks],
                  eps |-> ExampleEps, eps_operator |-> "<=", max_iter |-> max_iter,
                  stop_by_eps |-> TRUE, decimal_places |-> 6]
    /\ pc' = "example"
    /\ nCalls' = nCalls + 1
    /\ UNCHANGED <<loc, table, recorded, estimates, mret, out, nSaves, history, prev, other>>

\* bisection.py 43-78
ExampleStart ==
    /\ pc = "example"
    /\ LET xl == inp.params.xl
           xu == inp.params.xu
           f_xl == ExampleF(xl)
           f_xu == ExampleF(xu)
       IN  IF ProdSign(f_xl, f_xu) > 0
           THEN /\ MethodEnds(Return(None,
                        << StatusRow("Error", "The interval does not bracket a root", "ERROR") >>,
                        "none"), table)
                /\ UNCHANGED loc
           ELSE IF f_xl = 0
           THEN /\ MethodEnds(Return(xl,
                        << StatusRow("Message", "Lower bound is already a root", "SUCCESS") >>,
                        "none"), table)
                /\ UNCHANGED loc
           ELSE IF f_xu = 0
           THEN /\ MethodEnds(Return(xu,
                        << StatusRow("Message", "Upper bound is already a root", "SUCCESS") >>,
                        "none"), table)
                /\ UNCHANGED loc
           ELSE /\ pc' = "example_loop"
                /\ loc' = [of |-> "Example", xl |-> xl, xu |-> xu, f_xl |-> f_xl,
                           f_xu |-> f_xu, xr |-> Unbound, xr_old |-> 0, f_xr |-> Unbound,
                           abs_diff |-> Dash, error |-> Dash, i |-> 0]
                /\ UNCHANGED <<mret, table>>
    /\ UNCHANGED <<inp, recorded, estimates, out, nCalls, nSaves, history, prev, other>>

\* bisection.py 80-131
ExampleIterate ==
    /\ pc = "example_loop"
    /\ loc.i < inp.max_iter
    /\ LET i == loc.i
           xr_old == IF i > 0 THEN loc.xr ELSE loc.xr_old
           xr == (loc.xl + loc.xu) \div 2
           f_xr == ExampleF(xr)
           abs_diff == IF i > 0 THEN Abs(xr - xr_old) ELSE Dash
       IN  /\ loc' = [loc EXCEPT !.xr_old = xr_old, !.xr = xr, !.f_xr = f_xr,
                                  !.abs_diff = abs_diff]
           /\ table' = Append(table, ExampleRow(i, loc.xl, loc.xu, xr, f_xr))
           /\ recorded' = Append(recorded, i)
           /\ estimates' = estimates + 1
    /\ pc' = "example_check"
    /\ UNCHANGED <<inp, mret, out, nCalls, nSaves, history, prev, other>>

\* bisection.py 133-255, with eps <= 1 (the branch of line 196)
ExampleCheck ==
    /\ pc = "example_check"
    /\ IF loc.f_xr = 0
       THEN /\ MethodEnds(Return(loc.xr, Append(table,
                    StatusRow("Message", "Exact root found (within numerical precision)", "SUCCESS")),
                    "none"),
                    Append(table,
                    StatusRow("Message", "Exact root found (within numerical precision)", "SUCCESS")))
            /\ UNCHANGED loc
       ELSE IF /\ loc.i > 0
               /\ inp.stop_by_eps
               /\ CheckConvergence(ExampleError(loc.abs_diff), inp.eps, inp.eps_operator)
       THEN /\ MethodEnds(Return(loc.xr, Append(table,
                    StatusRow("Message", "Stopped by Epsilon", EpsilonStatus(inp.eps_operator))),
                    "none"),
                    Append(table,
                    StatusRow("Message", "Stopped by Epsilon", EpsilonStatus(inp.eps_operator))))
            /\ UNCHANGED loc
       ELSE /\ pc' = "example_loop"
            /\ UNCHANGED mret
            /\ IF ProdSign(loc.f_xl, loc.f_xr) < 0
               THEN /\ loc' = [loc EXCEPT !.xu = loc.xr, !.f_xu = loc.f_xr, !.i = loc.i + 1]
                    /\ table' = [table EXCEPT ![Len(table)] =
                                    @ @@ ("Interval Update" :> "Upper bound updated")]
               ELSE /\ loc' = [loc EXCEPT !.xl = loc.xr, !.f_xl = loc.f_xr, !.i = loc.i + 1]
                    /\ table' = [table EXCEPT ![Len(table)] =
                                    @ @@ ("Interval Update" :> "Lower bound updated")]
    /\ UNCHANGED <<inp, recorded, estimates, out, nCalls, nSaves, history, prev, other>>

\* bisection.py 257-264
ExampleExhausted ==
    /\ pc = "example_loop"
    /\ loc.i >= inp.max_iter
    /\ LET final == Append(table, StatusRow("Message",
                         "Stopped by reaching maximum iterations", "MAX_ITERATIONS"))
       IN  IF loc.xr = Unbound
           THEN MethodEnds(Raise("UnboundLocalError"), final)
           ELSE MethodEnds(Return(loc.xr, final, "none"), final)
    /\ UNCHANGED <<inp, loc, recorded, estimates, out, nCalls, nSaves, history, prev, other>>

ExampleNext ==
    \/ ExampleCall
    \/ ExampleStart
    \/ ExampleIterate
    \/ ExampleCheck
    \/ ExampleExhausted
    \/ SolverFinish

ExampleSpec == Init /\ [][ExampleNext]_vars

----------------------------------------------------------------------------
(* The same Solver called twice with the same arguments.  Solver.solve keeps
   nothing of a call in the Solver or in the method objects (the rows, the
   estimates and the bracket are local variables of the method's solve); what
   lasts from one call to the next is the history file. *)

\* Solver.solve has returned; the caller keeps the answer and calls again
Again ==
    /\ pc = "done"
    /\ prev = NoCall
    /\ prev' = [kind |-> "call", inp |-> inp, out |-> out]
    /\ pc' = "idle"
    /\ inp' = NoArgs
    /\ loc' = NoLocals
    /\ table' = << >>
    /\ recorded' = << >>
    /\ estimates' = 0
    /\ mret' = NoReturn
    /\ out' = NoReturn
    /\ nCalls' = 0
    /\ nSaves' = 0
    /\ UNCHANGED <<history, other>>

\* the first call with any arguments, the second with those of the first
RepeatCall ==
    /\ pc = "idle"
    /\ IF prev = NoCall
       THEN Call
       ELSE SolveCall(prev.inp.method_name, prev.inp.func, prev.inp.params,
                      prev.inp.eps, prev.inp.eps_operator, prev.inp.max_iter,
                      prev.inp.stop_by_eps, prev.inp.decimal_places)

RepeatNext ==
    \/ RepeatCall
    \/ BisectionStart
    \/ BisectionIterate
    \/ BisectionCheck
    \/ BisectionExhausted
    \/ FalsePositionStart
    \/ FalsePositionIterate
    \/ FalsePositionCheck
    \/ FalsePositionExhausted
    \/ SecantStart
    \/ SecantIterate
    \/ SecantCheck
    \/ SecantExhausted
    \/ FixedPointStart
    \/ FixedPointIterate
    \/ NewtonStart
    \/ NewtonIterate
    \/ NewtonCheck
    \/ NewtonExhausted
    \/ SolverFinish
    \/ Again

RepeatSpec == Init /\ [][RepeatNext]_vars

----------------------------------------------------------------------------
(* Two Solver.solve calls on one Solver at the same time.  A method's solve
   works on its local variables only, so the steps of the two methods commute:
   the first call is followed up to the return of its method and is then kept
   in the variable other, while the second call runs in the variables above.
   What the two calls share is the HistoryManager and its file: save_solution
   (history.py 69-103) reads the file in load_history and writes it back with
   the new entry, two steps between which the other call can run.  The file
   system's good case is taken here: reads and writes succeed. *)

\* the entry save_solution appends for a call (the timestamp left out)
Entry(args, result) ==
    [function |-> args.func, method |-> args.method_name,
     root |-> result.root, table |-> result.trace]

\* the method returned a root, so Solver.solve offers it to the history
Saves(result) == result.kind = "value" /\ result.root # None

\* the functions the two calls are made with
ConcurrentFuncs == {"x**2 - 4", "1/x"}

\* the calls of this specification: every method, threshold 0.5 with "<="
ConcurrentCall ==
    /\ pc = "idle"
    /\ \E method_name \in MethodNames, func \in ConcurrentFuncs, stop_by_eps \in BOOLEAN :
       \E params \in ParamsFor(method_name) :
          SolveCall(method_name, func, params, SCALE \div 2, "<=", MaxIterBound,
                    stop_by_eps, 2)

\* the first call is about to save; the second call begins
Park ==
    /\ pc = "returned"
    /\ other = NoOther
    /\ Saves(mret)
    /\ other' = [at |-> "returned", inp |-> inp, mret |-> mret,
                 loaded |-> << >>, out |-> NoReturn]
    /\ pc' = "idle"
    /\ inp' = NoArgs
    /\ loc' = NoLocals
    /\ table' = << >>
    /\ recorded' = << >>
    /\ estimates' = 0
    /\ mret' = NoReturn
    /\ nCalls' = 0
    /\ UNCHANGED <<out, nSaves, history, prev>>

\* history.py 84: the first call reads the file
OtherLoad ==
    /\ other # NoOther
    /\ other.at = "returned"
    /\ other' = [other EXCEPT !.at = "loaded", !.loaded = history]
    /\ UNCHANGED <<pc, inp, loc, table, recorded, estimates, mret, out, nCalls, nSaves,
                   history, prev>>

\* history.py 85-95 and solver.py 260: the first call writes the file and returns
OtherWrite ==
    /\ other # NoOther
    /\ other.at = "loaded"
    /\ history' = Append(other.loaded, Entry(other.inp, other.mret))
    /\ other' = [other EXCEPT !.at = "done",
                              !.out = SolverReturn(other.mret.root, other.mret.trace)]
    /\ UNCHANGED <<pc, inp, loc, table, recorded, estimates, mret, out, nCalls, nSaves, prev>>

\* history.py 84: the second call reads the file
ConcurrentLoad ==
    /\ pc = "returned"
    /\ other # NoOther
    /\ Saves(mret)
    /\ pc' = "saving"
    /\ loc' = [of |-> "save_solution", history |-> history]
    /\ nSaves' = nSaves + 1
    /\ UNCHANGED <<inp, table, recorded, estimates, mret, out, nCalls, history, prev, other>>

\* history.py 85-95 and solver.py 260: the second call writes the file and returns
ConcurrentWrite ==
    /\ pc = "saving"
    /\ history' = Append(loc.history, Entry(inp, mret))
    /\ out' = SolverReturn(mret.root, mret.trace)
    /\ pc' = "done"
    /\ UNCHANGED <<inp, loc, table, recorded, estimates, mret, nCalls, nSaves, prev, other>>

\* solver.py 251-264 for a call that has nothing to save
ConcurrentFinish ==
    /\ pc = "returned"
    /\ ~Saves(mret)
    /\ out' = IF mret.kind = "raise" THEN SolverError
              ELSE SolverReturn(mret.root, mret.trace)
    /\ pc' = "done"
    /\ UNCHANGED <<inp, loc, table, recorded, estimates, mret, nCalls, nSaves, history,
                   prev, other>>

ConcurrentNext ==
    \/ ConcurrentCall
    \/ BisectionStart
    \/ BisectionIterate
    \/ BisectionCheck
    \/ BisectionExhausted
    \/ FalsePositionStart
    \/ FalsePositionIterate
    \/ FalsePositionCheck
    \/ FalsePositionExhausted
    \/ SecantStart
    \/ SecantIterate
    \/ SecantCheck
    \/ SecantExhausted
    \/ FixedPointStart
    \/ FixedPointIterate
    \/ NewtonStart
    \/ NewtonIterate
    \/ NewtonCheck
    \/ NewtonExhausted
    \/ Park
    \/ OtherLoad
    \/ OtherWrite
    \/ ConcurrentLoad
    \/ ConcurrentWrite
    \/ ConcurrentFinish

ConcurrentSpec == Init /\ [][ConcurrentNext]_vars

----------------------------------------------------------------------------
(* BisectionMethod.solve called with a stop_criteria.  Solver.solve has no
   such parameter and never passes one (solver.py 227), so the method is
   called directly here, with a function and a bracket that Solver.solve
   would accept. *)

\* the kinds of error bisection.py 96-110 knows
StopCriteria == {"absolute", "relative", "function", "interval"}

\* error_value of bisection.py 96-112 in an iteration after the first
ErrorValue(stop_criteria, abs_diff, xr, f_xr, xl, xu) ==
    CASE stop_criteria = "absolute" -> abs_diff
      [] stop_criteria = "relative" ->
            IF NearZero(xr) THEN abs_diff ELSE Percent(abs_diff, xr)
      [] stop_criteria = "function" -> IF IsNaN(f_xr) THEN NaN ELSE Abs(f_xr)
      [] stop_criteria = "interval" -> Abs(xu - xl)
      [] OTHER -> abs_diff

\* BisectionMethod.solve(func, xl, xu, eps, eps_operator, max_iter, stop_by_eps,
\* decimal_places, stop_criteria)
BisectionCall ==
    /\ pc = "idle"
    /\ \E func \in Funcs, params \in BracketParams, eps \in EpsVals,
          eps_operator \in EpsOperators, max_iter \in MaxIterVals,
          stop_by_eps \in BOOLEAN, decimal_places \in DecimalPlacesVals,
          stop_criteria \in StopCriteria :
          /\ ValidationError("Bisection", func, params) = "ok"
          /\ inp' = [method_name |-> "Bisection", func |-> func, params |-> params,
                     eps |-> eps, eps_operator |-> eps_operator, max_iter |-> max_iter,
                     stop_by_eps |-> stop_by_eps, decimal_places |-> decimal_places,
                     stop_criteria |-> stop_criteria]
    /\ pc' = "bisection"
    /\ nCalls' = nCalls + 1
    /\ UNCHANGED <<loc, table, recorded, estimates, mret, out, nSaves, history, prev, other>>

CriteriaNext ==
    \/ BisectionCall
    \/ BisectionStart
    \/ BisectionIterate
    \/ BisectionCheck
    \/ BisectionExhausted

CriteriaSpec == Init /\ [][CriteriaNext]_vars

----------------------------------------------------------------------------
(* NewtonRaphsonMethod.solve and SecantMethod.solve on cycling estimates *)

\* the seeds of the cycles: Newton-Raphson from 0 or 1, Secant from (0, 1)
CyclingCalls ==
    {[method_name |-> "Newton-Raphson", params |-> [xi |-> 0]],
     [method_name |-> "Newton-Raphson", params |-> [xi |-> 1 * SCALE]],
     [method_name |-> "Secant", params |-> [xi_minus_1 |-> 0, xi |-> 1 * SCALE]]}

\* method.solve(func, **params, eps, eps_operator, max_iter, stop_by_eps, decimal_places)
CyclingCall ==
    /\ pc = "idle"
    /\ \E call \in CyclingCalls, func \in CyclingFuncs, eps \in EpsVals,
          eps_operator \in EpsOperators, max_iter \in MaxIterVals,
          stop_by_eps \in BOOLEAN, decimal_places \in DecimalPlacesVals :
          /\ inp' = [method_name |-> call.method_name, func |-> func,
                     params |-> call.params, eps |-> eps, eps_operator |-> eps_operator,
                     max_iter |-> max_iter, stop_by_eps |-> stop_by_eps,
                     decimal_places |-> decimal_places]
          /\ pc' = IF call.method_name = "Secant" THEN "secant" ELSE "newton"
    /\ nCalls' = nCalls + 1
    /\ UNCHANGED <<loc, table, recorded, estimates, mret, out, nSaves, history, prev, other>>

CyclingNext ==
    \/ CyclingCall
    \/ NewtonStart
    \/ NewtonIterate
    \/ NewtonCheck
    \/ NewtonExhausted
    \/ SecantStart
    \/ SecantIterate
    \/ SecantCheck
    \/ SecantExhausted

CyclingSpec == Init /\ [][CyclingNext]_vars

----------------------------------------------------------------------------
(* FixedPointMethod.solve on estimates of the magnitude of 1e15.  Here the *)
(* integer v of an estimate stands for the float v * 1e14; errors and eps  *)
(* keep the grid of SCALE.                                                 *)

\* self.divergence_threshold = 1e15 of newton_raphson.py, in units of 1e14;
\* fixed_point.py and secant.py hold no such bound
coarse_divergence_threshold == 10

\* initial guesses 5e14 (below the bound), 2e15 and -2e15 (above it)
CoarseSeeds == {5, 20, -20}

\* g(xi) for g = x - 1/x at |xi| >= 1e14: 1/xi is below 1e-14, less than half
\* the spacing of the doubles at xi, and the subtraction returns xi
CoarseGEval(g, x) ==
    IF IsNaN(x) \/ x = 0 THEN NaN
    ELSE CASE g = "x - 1/x" -> x
           [] g = "x + 0.1/x" -> x

\* the row of one iteration: rounding to dp places changes no number of this
\* magnitude
CoarseRow(iter_count, xi, g_xi, xi_plus_1, error, dp) ==
    ("Iteration" :> iter_count) @@ ("Xi" :> xi) @@ ("g(Xi)" :> g_xi)
    @@ ("Xi+1" :> xi_plus_1)
    @@ ("Error %" :> IF iter_count = 0 THEN Dash ELSE FormatValue(error, dp))

\* FixedPointMethod.solve("1/x", x0, eps, eps_operator, max_iter, stop_by_eps, dp)
DivergingCall ==
    /\ pc = "idle"
    /\ \E x0 \in CoarseSeeds, eps \in EpsVals, eps_operator \in EpsOperators,
          max_iter \in MaxIterVals, stop_by_eps \in BOOLEAN,
          decimal_places \in DecimalPlacesVals :
          inp' = [method_name |-> "Fixed Point", func |-> "1/x", params |-> [xi |-> x0],
                  eps |-> eps, eps_operator |-> eps_operator, max_iter |-> max_iter,
                  stop_by_eps |-> stop_by_eps, decimal_places |-> decimal_places]
    /\ pc' = "coarse_fixed_point"
    /\ nCalls' = nCalls + 1
    /\ UNCHANGED <<loc, table, recorded, estimates, mret, out, nSaves, history, prev, other>>

\* lines 334-344: derive g, initialise
DivergingStart ==
    /\ pc = "coarse_fixed_point"
    /\ LET x0 == inp.params["xi"]
           g == derive_gx(inp.func, x0)
       IN  IF g = "error"
           THEN /\ MethodEnds(Return(None, << MessageRow("Error", "Error deriving g(x)") >>,
                                     "none"), table)
                /\ UNCHANGED loc
           ELSE /\ pc' = "coarse_loop"
                /\ loc' = [of |-> "Fixed Point", g |-> g, xi |-> x0, iter_count |-> 0,
                           error |-> 100 * SCALE]
                /\ UNCHANGED <<mret, table>>
    /\ UNCHANGED <<inp, recorded, estimates, out, nCalls, nSaves, history, prev, other>>

\* lines 347-387: one pass of the while True loop, and the return after a break
DivergingIterate ==
    /\ pc = "coarse_loop"
    /\ LET xi == loc.xi
           g_xi == CoarseGEval(loc.g, xi)
           xi_plus_1 == g_xi
           iter_count == loc.iter_count
       IN  IF IsNaN(g_xi)
           THEN /\ MethodEnds(Return(None, << MessageRow("Error", "NaN value encountered") >>,
                                     "none"), table)
                /\ UNCHANGED <<loc, recorded, estimates>>
           ELSE LET error == IF iter_count > 0
                             THEN Percent(Abs(xi_plus_1 - xi), xi_plus_1)
                             ELSE loc.error
                    row == CoarseRow(iter_count, xi, g_xi, xi_plus_1, error,
                                     inp.decimal_places)
                IN  /\ recorded' = Append(recorded, iter_count)
                    /\ estimates' = estimates + 1
                    /\ loc' = [loc EXCEPT !.xi = xi_plus_1, !.iter_count = iter_count + 1,
                                           !.error = error]
                    /\ IF FixedPointContinues(error, inp.eps, iter_count + 1, inp.max_iter)
                       THEN /\ table' = Append(table, row)
                            /\ pc' = "coarse_loop"
                            /\ UNCHANGED mret
                       ELSE MethodEnds(Return(xi_plus_1, Append(table, row), "none"),
                                       Append(table, row))
    /\ UNCHANGED <<inp, out, nCalls, nSaves, history, prev, other>>

DivergingNext ==
    \/ DivergingCall
    \/ DivergingStart
    \/ DivergingIterate

DivergingSpec == Init /\ [][DivergingNext]_vars

----------------------------------------------------------------------------
(* HistoryManager.save_solution and load_history called in any order       *)
(* (history.py 69-124).  `history` is the stored history: the list that    *)
(* load_history answers from the file.                                     *)

\* the calls of one behaviour
MaxHistoryCalls == 3

\* the solutions offered: roots 0.0 and 1.0, and None, which
\* _validate_solution_data refuses
OfferedRoots == {0, 1 * SCALE, None}

OfferedFuncs == {"x", "1/x"}

\* what happens to the file in save_solution: the list is written; open(..., 'w')
\* raises an IOError and the file is untouched; open has truncated the file and
\* a write of json.dump raises an IOError (both IOErrors are caught: False);
\* open has truncated the file and json.dump raises a TypeError on a value of
\* the table that is no JSON value, which save_solution does not catch
WriteOutcomes == {"written", "open fails", "write fails", "TypeError"}

\* the list load_history answers after the write: a truncated or half-written
\* file is no JSON text, json.load raises JSONDecodeError and the answer is []
StoredAfter(h, func, method, root, trace, outcome) ==
    CASE outcome = "written" -> SaveSolution(h, func, method, root, trace, "written")
      [] outcome = "open fails" -> h
      [] OTHER -> << >>

\* save_solution(func, method, root, table)
HistorySave ==
    /\ pc = "idle"
    /\ nCalls < MaxHistoryCalls
    /\ \E func \in OfferedFuncs, root \in OfferedRoots, outcome \in WriteOutcomes :
          IF root = None
          THEN /\ out' = [kind |-> "value", answer |-> FALSE]
               /\ UNCHANGED history
          ELSE /\ history' = StoredAfter(history, func, "Bisection", root, << >>, outcome)
               /\ out' = CASE outcome = "written" -> [kind |-> "value", answer |-> TRUE]
                           [] outcome = "TypeError" -> Raise("TypeError")
                           [] OTHER -> [kind |-> "value", answer |-> FALSE]
    /\ nCalls' = nCalls + 1
    /\ nSaves' = nSaves + 1
    /\ UNCHANGED <<pc, inp, loc, table, recorded, estimates, mret, prev, other>>

\* load_history()
HistoryLoad ==
    /\ pc = "idle"
    /\ nCalls < MaxHistoryCalls
    /\ out' = [kind |-> "value", entries |-> history]
    /\ nCalls' = nCalls + 1
    /\ UNCHANGED <<pc, inp, loc, table, recorded, estimates, mret, nSaves, history, prev, other>>

HistoryNext ==
    \/ HistorySave
    \/ HistoryLoad

HistorySpec == Init /\ [][HistoryNext]_vars

----------------------------------------------------------------------------
(* Properties *)

BracketMethods == {"Bisection", "False Position"}

\* the positions inside and after a bracketing method's loop
BracketPositions ==
    {"bisection_loop", "bisection_check", "false_position_loop",
     "false_position_check", "returned"}

\* the call passed the validation of Solver.solve
ValidCall ==
    /\ pc # "idle"
    /\ ValidationError(inp.method_name, inp.func, inp.params) = "ok"

\* a row that explains: it has an Error, a Message or a Warning
IsDiagnostic(row) == \E k \in {"Error", "Message", "Warning"} : k \in DOMAIN row

\* the Iteration indices of the rows of a returned trace that carry one, in order
RECURSIVE IterationIndices(_)
IterationIndices(trace) ==
    IF trace = << >> THEN << >>
    ELSE IF "Iteration" \in DOMAIN Head(trace)
         THEN << Head(trace)["Iteration"] >> \o IterationIndices(Tail(trace))
         ELSE IterationIndices(Tail(trace))

\* f(xl) * f(xu) < 0 for the bracket the call was given
WellPosed ==
    /\ ValidCall
    /\ inp.method_name \in BracketMethods
    /\ Sympifies(inp.func)
    /\ ProdSign(SafeEval(inp.func, inp.params["xl"]),
                SafeEval(inp.func, inp.params["xu"])) = -1

C2_ReturnsMethodResult ==
    (pc = "done" /\ ValidCall) =>
        /\ nCalls = 1
        /\ mret.kind = "value"
        /\ out = SolverReturn(mret.root, mret.trace)

\* C3: Solver.solve never raises, and every failure (an absent root) is
\* returned together with a diagnostic trace row.
C3_FailureHasDiagnosticRow ==
    pc = "done" =>
        /\ out.kind = "value"
        /\ out.root = None =>
              /\ out.trace # << >>
              /\ IsDiagnostic(out.trace[Len(out.trace)])

\* the validation failures of Solver.solve, as the call's arguments show them:
\* an unknown method name, a text that does not parse, a required parameter
\* missing or not a number, xl >= xu, equal Secant seeds
InvalidCall ==
    /\ pc # "idle"
    /\ \/ inp.method_name \notin MethodNames
       \/ ~validate_function(inp.func)
       \/ /\ inp.method_name \in BracketMethods
          /\ \/ ~Has(inp.params, "xl") \/ ~Has(inp.params, "xu")
             \/ ~IsNumber(inp.params["xl"]) \/ ~IsNumber(inp.params["xu"])
             \/ inp.params["xl"] >= inp.params["xu"]
       \/ /\ inp.method_name \in {"Fixed Point", "Newton-Raphson"}
          /\ \/ ~Has(inp.params, "xi")
             \/ ~IsNumber(inp.params["xi"])
       \/ /\ inp.method_name = "Secant"
          /\ \/ ~Has(inp.params, "xi_minus_1") \/ ~Has(inp.params, "xi")
             \/ ~IsNumber(inp.params["xi_minus_1"]) \/ ~IsNumber(inp.params["xi"])
             \/ inp.params["xi_minus_1"] = inp.params["xi"]

C5_TerminalRowAndStatus ==
    (pc = "done" /\ ValidCall) =>
        /\ out.trace # << >>
        /\ IsDiagnostic(out.trace[Len(out.trace)])

\* C6: the returned trace holds one iteration row for each iteration that was
\* performed, in the order they were performed; none is dropped. (Stated for
\* the calls that do not end in the except clause of Solver.solve.)
C6_TraceHoldsEveryIteration ==
    (pc = "done" /\ out # SolverError) => IterationIndices(out.trace) = recorded

\* an element of a method's table is an iteration row
IsIterationRow(e) ==
    \/ "Iteration" \in DOMAIN e
    \/ "row" \in DOMAIN e /\ "Iteration" \in DOMAIN e.row

\* C7: once an iteration row is in a method's table, no later step changes a
\* field of it, adds a field to it, or puts another row in its place.
C7_TraceAppendOnly ==
    [][\A k \in 1 .. Len(table) :
          IsIterationRow(table[k]) => (k <= Len(table') /\ table'[k] = table[k])]_vars

\* C8: in Bisection and False Position, when f(xl) and f(xu) are not of opposite
\* sign at entry (NaN included), the method ends at once with an absent root and
\* a diagnostic row, and computes no xr. (Stated for the same sign and for NaN;
\* a bound at which f is zero is answered with that bound as the root.)
C8_NoBracketNoIteration ==
    (/\ pc \in BracketPositions
     /\ ValidCall
     /\ inp.method_name \in BracketMethods
     /\ Sympifies(inp.func)
     /\ ProdSign(SafeEval(inp.func, inp.params["xl"]),
                 SafeEval(inp.func, inp.params["xu"])) \notin {-1, 0}) =>
        /\ pc = "returned"
        /\ mret.kind = "value"
        /\ mret.root = None
        /\ Len(mret.trace) = 1
        /\ IsDiagnostic(mret.trace[1])
        /\ estimates = 0

\* abs(xu - xl) of the bracket a method holds
Width(l) == Abs(Sub(l.xu, l.xl))

\* C9: for a bracket with f(xl) * f(xu) < 0, in Bisection and False Position the
\* width of the bracket after a step is at most the width before it.
C9_WidthNonIncreasing ==
    [][(/\ WellPosed
        /\ loc.of \in BracketMethods
        /\ loc'.of \in BracketMethods) => Le(Width(loc'), Width(loc))]_vars

EndedOnExactRoot ==
    /\ table # << >>
    /\ "Message" \in DOMAIN table[Len(table)]
    /\ table[Len(table)]["Message"] = "Exact root found (within numerical precision)"

ExampleCallOf50 ==
    /\ inp.method_name = "Bisection" /\ inp.func = "x**2 - 4"
    /\ inp.params = [xl |-> 0, xu |-> Ticks]
    /\ inp.eps = ExampleEps /\ inp.eps_operator = "<=" /\ inp.max_iter = ExampleCap

\* C11: Bisection on x**2 - 4 over [0, 3] with threshold 1e-4 and cap 50, run
\* through Solver.solve, returns a root equal to 2.0 to 4 decimal places
C11_ExampleRootIsTwo ==
    (pc = "done" /\ ExampleCallOf50) =>
        (out.root # None /\ EqualsTwoTo4Places(out.root))

\* the policy of the call is one the input form accepts: threshold positive
\* and at most MAX_EPS, cap positive, operator one of the five
ValidPolicy ==
    /\ inp.eps > 0 /\ inp.eps <= MAX_EPS
    /\ inp.max_iter > 0
    /\ inp.eps_operator \in RecognizedOperators

\* the error a method holds where it decides on the threshold
ComparedError ==
    CASE pc = "bisection_check" -> ThresholdError(inp.eps, loc.abs_diff, loc.xr)
      [] pc = "false_position_check" -> loc.abs_diff
      [] pc = "secant_check" ->
            ThresholdError(inp.eps, Abs(loc.x_next - loc.x1), loc.x_next)
      [] pc = "newton_check" -> loc.relative_error

\* a threshold decision is due: the flag is set, the iteration is not the
\* first one and its estimate is not an exact root
ThresholdDue ==
    \/ pc \in {"bisection_check", "false_position_check"}
       /\ ValidPolicy /\ inp.stop_by_eps /\ loc.i > 0 /\ ~NearZero(loc.f_xr)
    \/ pc = "secant_check"
       /\ ValidPolicy /\ inp.stop_by_eps /\ loc.i > 1 /\ ~NearZero(loc.f_x_next)
    \/ pc = "newton_check"
       /\ ValidPolicy /\ inp.stop_by_eps /\ loc.i > 0
       /\ ~NearZero(NewtonF(inp.func, loc.x_current))

\* the step ends the method by the threshold
StopsByThreshold ==
    /\ pc' = "returned"
    /\ pc = "newton_check" => mret'.status = "converged"

\* a pass of Fixed Point after the first that computed an error, below the cap
FixedPointThresholdDue ==
    /\ pc = "fixed_point_loop"
    /\ ValidPolicy
    /\ inp.stop_by_eps
    /\ loc.iter_count >= 1
    /\ recorded' # recorded
    /\ loc'.iter_count < inp.max_iter

ReturnsWithoutGuard ==
    \/ /\ pc \in {"bisection_check", "false_position_check"}
       /\ pc' = "returned"
       /\ ~NearZero(loc.f_xr)
    \/ /\ pc = "secant_check"
       /\ pc' = "returned"
       /\ ~NearZero(loc.f_x_next)
    \/ /\ pc = "newton_check"
       /\ pc' = "returned"
       /\ mret'.status = "converged"
       /\ ~NearZero(NewtonF(inp.func, loc.x_current))
    \/ /\ pc = "fixed_point_loop"
       /\ pc' = "returned"
       /\ mret'.root # None
       /\ ~NearZero(SafeEval(inp.func, mret'.root))
       /\ loc'.iter_count < inp.max_iter

C14_InvalidPolicyRejected ==
    (pc # "idle" /\ ~ValidPolicy) =>
        /\ nCalls = 0
        /\ pc = "done" =>
              (out.root = None /\ Len(out.trace) = 1 /\ IsDiagnostic(out.trace[1]))

\* the statuses of a solve that ended in an error
ErrorStatuses ==
    {"domain_error", "zero_derivative", "numerical_error", "oscillating", "diverged"}

\* the method returned a root and no error status
Successful ==
    mret.kind = "value" /\ mret.root # None /\ mret.status \notin ErrorStatuses

\* C15: Solver.solve offers (function_text, method_name, root, trace) to the
\* persistence collaborator exactly once, after the method has returned, when
\* the solve is successful, and never when it ends in validation failure or in
\* an error status
C15_SavedExactlyWhenSuccessful ==
    /\ nSaves <= 1
    /\ nSaves = 1 => (pc = "done" /\ mret.kind = "value")
    /\ (pc = "done" /\ ValidPolicy) => (nSaves = 1 <=> Successful)

\* C16: the (root, trace) returned by Solver.solve does not depend on the
\* persistence collaborator: whether save_solution succeeds, returns False or
\* raises, solve returns the root and trace that the method produced
C16_ResultIndependentOfPersistence ==
    (pc = "done" /\ nSaves = 1) => (out.root = mret.root /\ out.trace = mret.trace)

\* C17: calling Solver.solve twice on the same Solver with identical inputs
\* returns identical roots and identical traces, whatever solve calls or
\* persistence writes happened in between
C17_RepeatedCallSameResult ==
    (pc = "done" /\ prev # NoCall /\ ValidPolicy) =>
        (out.root = prev.out.root /\ out.trace = prev.out.trace)

\* both calls have returned
BothDone == pc = "done" /\ other # NoOther /\ other.at = "done"

\* the file after the two calls run one after the other, in either order
SequentialStores ==
    LET first == Entry(other.inp, other.mret)
        second == Entry(inp, mret)
    IN  IF Saves(mret) THEN {<< first, second >>, << second, first >>}
        ELSE {<< first >>}

\* C18: two solve invocations interleaved at any points share no mutable
\* state: each returns the root and trace it would return when run alone, and
\* their effects on the persistence store are those of some sequential order
C18_InterleavingIsSequential ==
    BothDone =>
        /\ mret.kind = "value" => (out.root = mret.root /\ out.trace = mret.trace)
        /\ other.out.root = other.mret.root /\ other.out.trace = other.mret.trace
        /\ history \in SequentialStores

\* an iteration of Bisection or False Position is about to start
StartOfIteration ==
    /\ pc \in {"bisection_loop", "false_position_loop"}
    /\ ValidPolicy
    /\ loc.i < inp.max_iter

\* xl < xu with f(xl) and f(xu) of opposite sign
Bracketed == Lt(loc.xl, loc.xu) /\ ProdSign(loc.f_xl, loc.f_xu) = -1

\* the step replaces a bound by xr, and that bound's value has the sign of f(xr)
ReplacesSameSignBound ==
    /\ loc'.xl # loc.xl => (loc'.xl = loc.xr /\ ProdSign(loc.f_xl, loc.f_xr) = 1)
    /\ loc'.xu # loc.xu => (loc'.xu = loc.xr /\ ProdSign(loc.f_xu, loc.f_xr) = 1)

\* C19: in Bisection and False Position, at the start of every iteration the
\* bracket satisfies xl < xu with f(xl) and f(xu) of opposite sign, and the
\* bound replaced is the one whose function value shares sign with f(xr)
C19_BracketKeptAcrossIterations ==
    [][/\ StartOfIteration => Bracketed
       /\ (pc \in {"bisection_check", "false_position_check"} /\ ValidPolicy
           /\ pc' \in {"bisection_loop", "false_position_loop"})
             => ReplacesSameSignBound]_vars

\* C20: in every method the convergence predicate is not applied on the first
\* iteration: no solve terminates by threshold at the first computed estimate,
\* whatever its error value
C20_NoThresholdStopAtFirstEstimate ==
    [][(pc \notin {"idle", "done"} /\ ValidPolicy /\ ReturnsWithoutGuard)
            => estimates' >= 2]_vars

\* C21: the value compared against the threshold is selected by the policy's
\* error-metric kind (absolute difference, relative percentage, function-value
\* magnitude, interval width): a solve configured with one kind stops by
\* threshold according to that kind's value and no other
C21_StopsByConfiguredKind ==
    [][(pc = "bisection_check" /\ ValidPolicy /\ inp.stop_by_eps /\ loc.i > 0
        /\ ~NearZero(loc.f_xr))
         => ((pc' = "returned") <=>
                CheckConvergence(ErrorValue(inp.stop_criteria, loc.abs_diff, loc.xr,
                                            loc.f_xr, loc.xl, loc.xu),
                                 inp.eps, inp.eps_operator))]_vars

\* the new estimate where a method decides on the threshold
NewEstimate ==
    CASE pc \in {"bisection_check", "false_position_check"} -> loc.xr
      [] pc = "secant_check" -> loc.x_next
      [] pc = "newton_check" -> loc.x_current

\* the absolute difference between the new estimate and the one before it
AbsDiff ==
    CASE pc \in {"bisection_check", "false_position_check"} -> loc.abs_diff
      [] pc = "secant_check" -> Abs(loc.x_next - loc.x1)
      [] pc = "newton_check" -> Abs(loc.x_current - loc.x_old)

\* C22: in every method that applies the threshold, when eps > 1 the value
\* compared against eps is the relative percentage error, and when eps <= 1 it
\* is the absolute difference between consecutive estimates
C22_EpsSelectsErrorMeasure ==
    [][/\ ThresholdDue =>
            (StopsByThreshold <=>
                CheckConvergence(ThresholdError(inp.eps, AbsDiff, NewEstimate),
                                 inp.eps, inp.eps_operator))
       /\ (FixedPointThresholdDue /\ inp.eps_operator = "<=") =>
            ((pc' = "returned") <=>
                CheckConvergence(ThresholdError(inp.eps, Abs(loc'.xi - loc.xi), loc'.xi),
                                 inp.eps, inp.eps_operator))]_vars

\* C23: in every method, when the new estimate has magnitude below 1e-10 the
\* relative percentage error is replaced by the absolute difference of the two
\* estimates; no division by a zero estimate occurs and the solve does not end
\* in an error because of it
C23_ZeroEstimateFallsBack ==
    [][/\ (pc \in {"bisection_check", "false_position_check"} /\ ValidPolicy
           /\ loc.i > 0 /\ NearZero(loc.xr))
             => loc.error = loc.abs_diff
       /\ (pc = "secant_check" /\ ValidPolicy /\ NearZero(loc.x_next))
             => table[Len(table)]["Error %"]
                   = FormatError(Abs(loc.x_next - loc.x1), inp.decimal_places)
       /\ (pc = "newton_check" /\ ValidPolicy /\ NearZero(loc.x_current))
             => loc.relative_error = Abs(loc.x_current - loc.x_old)
       /\ (pc = "fixed_point_loop" /\ ValidPolicy /\ loc.iter_count > 0
           /\ NearZero(GEval(loc.g, loc.xi)))
             => /\ recorded' # recorded
                /\ loc'.error = Abs(GEval(loc.g, loc.xi) - loc.xi)]_vars

\* C24: at any Newton-Raphson iteration where |f'(x_i)| < 1e-10, the solve
\* terminates with status zero-derivative, returning x_i, without performing
\* the division f(x_i)/f'(x_i) and without computing a new estimate
C24_ZeroDerivativeStops ==
    [][(/\ pc = "newton_loop" /\ loc.i < inp.max_iter
        /\ ~NewtonFRaises(inp.func, loc.x_current)
        /\ NearZero(NewtonFPrime(inp.func, loc.x_current)))
         => /\ pc' = "returned"
            /\ mret'.status = "zero_derivative"
            /\ mret'.root = loc.x_current
            /\ estimates' = estimates
            /\ loc' = loc]_vars

\* a Newton-Raphson solve has ended at an iterate whose derivative is zero
C24_Witness ==
    /\ pc = "returned" /\ inp.method_name = "Newton-Raphson"
    /\ mret.status = "zero_derivative"
    /\ NearZero(NewtonFPrime(inp.func, mret.root))

\* the row statuses with which Secant reports a numerical error: the collapsed
\* denominator and the NaN or infinite estimate
SecantNumericalErrors == {"ZERO_DENOMINATOR", "INVALID_VALUE"}

\* the division of this step has a denominator below 1e-10
DenominatorCollapsed ==
    \/ pc = "false_position_loop" /\ loc.i < inp.max_iter
       /\ NearZero(Sub(loc.f_xu, loc.f_xl))
    \/ pc = "secant_loop" /\ loc.i <= inp.max_iter
       /\ NearZero(Sub(loc.f_x1, loc.f_x0))

RepeatsEarlierEstimate ==
    \/ pc = "newton_check"
       /\ \/ loc.x_current = inp.params["xi"]
          \/ \E k \in 1 .. Len(loc.previous_values) : loc.previous_values[k] = loc.x_current
    \/ pc = "secant_check"
       /\ loc.x_next \in {loc.x0, loc.x1, inp.params["xi_minus_1"], inp.params["xi"]}

\* the step ends the solve with status oscillating
EndsOscillating ==
    /\ pc' = "returned" /\ mret'.kind = "value"
    /\ \/ mret'.status = "oscillating"
       \/ /\ Len(mret'.trace) > 0
          /\ "Status" \in DOMAIN mret'.trace[Len(mret'.trace)]
          /\ mret'.trace[Len(mret'.trace)]["Status"] = "OSCILLATING"

\* the step ends the solve on the exact-root check or on the threshold, which
\* come before the oscillation check
StopsOtherwise ==
    /\ pc' = "returned" /\ mret'.kind = "value"
    /\ \/ mret'.status = "converged"
       \/ /\ Len(mret'.trace) > 0
          /\ "Status" \in DOMAIN mret'.trace[Len(mret'.trace)]
          /\ mret'.trace[Len(mret'.trace)]["Status"] \in {"SUCCESS", "CONVERGED"}

\* C26: in Newton-Raphson and Secant, whenever a new estimate lies within 1e-6
\* of one of the last 5 distinct earlier estimates the solve terminates (with
\* status oscillating unless an earlier check of the iteration ended it), and
\* a solve is reported as oscillating only in that case
C26_OscillationDetected ==
    [][/\ (RepeatsEarlierEstimate /\ ValidPolicy /\ ~StopsOtherwise) => EndsOscillating
       /\ EndsOscillating => RepeatsEarlierEstimate]_vars

\* the step ends the solve with status diverged
EndsDiverged ==
    /\ pc' = "returned" /\ mret'.kind = "value"
    /\ \/ mret'.status = "diverged"
       \/ /\ Len(mret'.trace) > 0
          /\ "Status" \in DOMAIN mret'.trace[Len(mret'.trace)]
          /\ mret'.trace[Len(mret'.trace)]["Status"] = "DIVERGED"

\* C27: in Newton-Raphson, Secant and Fixed Point, whenever the magnitude of
\* the estimate exceeds the fixed divergence bound (1e15) the solve terminates
\* at that iteration with status diverged rather than continuing to iterate
C27_DivergenceEndsTheSolve ==
    [][(/\ pc = "coarse_loop" /\ ValidPolicy
        /\ estimates' # estimates
        /\ Abs(loc'.xi) > coarse_divergence_threshold)
         => EndsDiverged]_vars

\* g'(x0) of a candidate: the derivative of the candidate's expression at the
\* initial guess
GDerivative(g, x0) ==
    IF IsNaN(x0) THEN NaN
    ELSE CASE g = "2" -> 0
           [] g = "0" -> 0
           [] g = "-x**2 + x + 4" -> 1 * SCALE - 2 * x0
           [] g = "0.1*x**2 + x - 0.4" -> 1 * SCALE + RDiv(2 * x0, 10)
           [] g = "1.1*x" -> RDiv(11 * SCALE, 10)
           [] g = "x - 1/x" ->
                IF x0 = 0 THEN NaN ELSE 1 * SCALE + RDiv(RDiv(SCALE * SCALE, x0) * SCALE, x0)
           [] g = "x + 0.1/x" ->
                IF x0 = 0 THEN NaN
                ELSE 1 * SCALE - RDiv(RDiv(SCALE * SCALE, x0) * SCALE, 10 * x0)

\* |g'(x0)| < 1
Contracts(g, x0) == Lt(Abs(GDerivative(g, x0)), 1 * SCALE)

\* C28: Fixed Point's g-derivation tries the candidates in order and accepts a
\* candidate only if |g'(x0)| < 1 at the initial guess, accepting the first
\* that satisfies it; a candidate with |g'(x0)| >= 1 is never accepted while a
\* later candidate satisfies the condition (stated for the initial guesses at
\* which every candidate has a derivative)
C28_FirstContractingCandidate ==
    [][(/\ pc = "fixed_point" /\ pc' = "fixed_point_loop"
        /\ \A j \in 1 .. Len(GCandidates(inp.func)) :
              ~IsNaN(GDerivative(GCandidates(inp.func)[j], inp.params["xi"]))) =>
          LET x0 == inp.params["xi"]
              cands == GCandidates(inp.func)
          IN  \E k \in 1 .. Len(cands) :
                 /\ loc'.g = cands[k]
                 /\ Contracts(cands[k], x0)
                 /\ \A j \in 1 .. (k - 1) : ~Contracts(cands[j], x0)]_vars

\* the row of an element of a method's table (Newton-Raphson keeps its rows
\* under keys)
TableRow(e) == IF "row" \in DOMAIN e THEN e.row ELSE e

\* the row carries an Iteration index: an Iteration field that is a number (the
\* rows of the initial-guess check of Newton-Raphson, lines 270-321, hold a
\* text there and only Xi besides)
HasIterationIndex(row) ==
    "Iteration" \in DOMAIN row /\ DOMAIN row # {"Iteration", "Xi"}

\* the row records a computed estimate: its Xr or Xi+1 is not "---"
RecordsEstimate(row) ==
    \E k \in {"Xr", "Xi+1"} : k \in DOMAIN row /\ row[k] # Dash

\* the positions of a table whose rows carry an Iteration index
IndexedPositions(tbl) ==
    {k \in 1 .. Len(tbl) : HasIterationIndex(TableRow(tbl[k]))}

\* C29: in every method's trace the rows that carry an Iteration index appear
\* with indices increasing by one in insertion order, each index is on at most
\* one row, and every such row records an estimate that was computed (terminal
\* annotation rows take no iteration index)
C29_IterationIndicesCountEstimates ==
    /\ \A k \in IndexedPositions(table) :
          /\ ~IsDiagnostic(TableRow(table[k]))
          /\ RecordsEstimate(TableRow(table[k]))
    /\ \A j, k \in IndexedPositions(table) :
          (j < k /\ ~\E m \in IndexedPositions(table) : j < m /\ m < k)
             => TableRow(table[k])["Iteration"] = TableRow(table[j])["Iteration"] + 1

\* h is an initial part of g
IsPrefix(h, g) == Len(h) <= Len(g) /\ SubSeq(g, 1, Len(h)) = h

\* C30: for HistoryManager, after any sequence of save_solution and
\* load_history calls the stored history never loses entries: a save_solution
\* that returns True leaves the previous stored history with exactly one entry
\* appended, and a save_solution that returns False leaves it unchanged
C30_HistoryNeverLosesEntries ==
    [][/\ IsPrefix(history, history')
       /\ (nSaves' # nSaves /\ out'.kind = "value") =>
             IF out'.answer
             THEN Len(history') = Len(history) + 1
             ELSE history' = history]_vars

============================================================================
